---- MODULE Spec2Model ----
(***************************************************************************)
(* vault67 agent: the analysis-and-aggregation pipeline.                   *)
(*                                                                         *)
(*   cli.py            analyze, _generate_summary, _generate_recommendations*)
(*   ast_analyzer.py   ComplexityVisitor, ASTAnalyzer, analyze_directory   *)
(*   ruff_analyzer.py  RuffAnalyzer                                        *)
(*   mypy_analyzer.py  MypyAnalyzer                                        *)
(*   repo_analyzer.py  GitRepoAnalyzer, analyze_git_repo                   *)
(*   schemas.py        Finding, Location, AnalysisSummary, ...             *)
(*                                                                         *)
(* Three specifications share the definitions below:                       *)
(*   Spec     the analyze command, step by step, over small inputs;        *)
(*   SpecAgg  the aggregation tail of analyze (summary, recommendations,   *)
(*            report, exit code) from merged finding lists large enough to *)
(*            cross every recommendation threshold;                        *)
(*   SpecAst  ASTAnalyzer.analyze_file over bounded syntax trees.          *)
(*                                                                         *)
(* Conventions.  An Optional value is a sequence: <<>> is None, <<x>> is   *)
(* x.  A path component is a pair <<first character, remainder>>, a path   *)
(* is the sequence of its components, and str(path) is the path itself.    *)
(* A formatted message is the tuple of its template and the values put     *)
(* into it.                                                                *)
(***************************************************************************)
EXTENDS Integers, Sequences, FiniteSets, TLC

VARIABLES
    pc,                   \* position in analyze (cli.py) or in the component run
    repo_path,            \* analyze argument REPO_PATH, as path components
    output,               \* --output: None or a file name
    complexity_threshold, \* --complexity-threshold
    skip_git, skip_ruff, skip_mypy, skip_ast,
    fs,                   \* the .py files under repo_path (the file system read)
    tool_run,             \* what the collaborators did in this run (environment)
    all_findings,         \* cli.py:81
    ast_findings,         \* cli.py:87
    ruff_findings,        \* cli.py:98
    mypy_findings,        \* cli.py:109
    git_metrics,          \* cli.py:116
    python_files,         \* cli.py:129-138, the filtered list's length
    summary,              \* cli.py:141
    recommendations,      \* cli.py:144
    result,               \* cli.py:147, the AnalysisResult
    emitted,              \* the JSON document written to the file or stdout
    exit_code,            \* the process exit status; None while running
    tree,                 \* SpecAst: the source file handed to analyze_file
    file_findings         \* SpecAst: what analyze_file returned

vars == <<pc, repo_path, output, complexity_threshold, skip_git, skip_ruff,
          skip_mypy, skip_ast, fs, tool_run, all_findings, ast_findings,
          ruff_findings, mypy_findings, git_metrics, python_files, summary,
          recommendations, result, emitted, exit_code, tree, file_findings>>

(***************************************************************************)
(* Bounds of the model.                                                    *)
(***************************************************************************)
MaxFiles == 2
MaxNodes == 3
MaxThreshold == 2
MaxOver == 1
MaxLines == 2
MaxIssues == 2

(***************************************************************************)
(* schemas.py                                                              *)
(***************************************************************************)
None == <<>>
Some(x) == <<x>>

Severity == {"critical", "high", "medium", "low", "info"}

FindingType == {"style", "type_error", "complexity", "security", "performance",
                "maintainability", "bug", "code_smell"}

Priority == {"urgent", "high", "medium", "low"}

Location(file, line, column, end_line, function) ==
    [file |-> file, line |-> line, column |-> column, end_line |-> end_line,
     function |-> function]

Finding(type, severity, location, message, rule_id, fix_available) ==
    [type |-> type, severity |-> severity, location |-> location,
     message |-> message, rule_id |-> rule_id, fix_available |-> fix_available]

Recommendation(priority, category, action, effort) ==
    [priority |-> priority, category |-> category, action |-> action,
     effort |-> effort, related_findings |-> <<>>]

AnalysisSummary(total_files, python_files_count, total_findings, findings_by_severity, findings_by_type, total_recommendations) ==
    [total_files |-> total_files, python_files |-> python_files_count,
     total_findings |-> total_findings,
     findings_by_severity |-> findings_by_severity,
     findings_by_type |-> findings_by_type,
     total_recommendations |-> total_recommendations]

GitMetrics(total_commits, hot_spots, large_files) ==
    [total_commits |-> total_commits, hot_spots |-> hot_spots,
     large_files |-> large_files]

AnalysisResult(path, s, findings, recs, metrics) ==
    [repo_path |-> path, summary |-> s, findings |-> findings,
     recommendations |-> recs, git_metrics |-> metrics]

\* AnalysisResult.to_json: model_dump_json writes every field as it stands.
to_json(r) == r

(***************************************************************************)
(* cli.py: _generate_summary                                               *)
(***************************************************************************)
\* A count that is set instead of incremented.
CounterAdd_set(counter, k) ==
    [x \in DOMAIN counter \cup {k} |-> IF x = k THEN 1 ELSE counter[x]]

\* Counter[k] += 1: a key the Counter has not seen starts from 0.
CounterAdd(counter, k) ==
    IF k \in DOMAIN counter
    THEN [counter EXCEPT ![k] = @ + 1]
    ELSE [x \in DOMAIN counter \cup {k} |-> IF x = k THEN 1 ELSE counter[x]]

EmptyCounter == [x \in {} |-> 0]

RECURSIVE CountSeverities(_, _)
CountSeverities(findings, counter) ==
    IF findings = <<>> THEN counter
    ELSE CountSeverities(Tail(findings), CounterAdd(counter, Head(findings).severity))

RECURSIVE CountTypes(_, _)
CountTypes(findings, counter) ==
    IF findings = <<>> THEN counter
    ELSE CountTypes(Tail(findings), CounterAdd(counter, Head(findings).type))

FilesWithFindings(findings) ==
    {findings[i].location.file : i \in 1..Len(findings)}

\* A count of the runs of findings on the same file, as they arrive.
TotalFiles_runs(findings, python_files_count) ==
    IF findings = <<>> THEN python_files_count
    ELSE Cardinality({n \in 1..Len(findings) :
                        n = 1 \/ findings[n].location.file # findings[n - 1].location.file})

\* The distinct-file count without its fallback.
TotalFiles_no_fallback(findings, python_files_count) ==
    Cardinality(FilesWithFindings(findings))

TotalFiles(findings, python_files_count) ==
    IF FilesWithFindings(findings) # {}
    THEN Cardinality(FilesWithFindings(findings))
    ELSE python_files_count

_generate_summary(findings, python_files_count) ==
    AnalysisSummary(TotalFiles(findings, python_files_count),
                    python_files_count,
                    Len(findings),
                    CountSeverities(findings, EmptyCounter),
                    CountTypes(findings, EmptyCounter),
                    0)

(***************************************************************************)
(* cli.py: _generate_recommendations                                       *)
(***************************************************************************)
\* sum(1 for f in findings if f.severity == severity)
RECURSIVE SeverityCount(_, _)
SeverityCount(findings, severity) ==
    IF findings = <<>> THEN 0
    ELSE (IF Head(findings).severity = severity THEN 1 ELSE 0)
         + SeverityCount(Tail(findings), severity)

\* [f for f in findings if f.type == type]
IssuesOfType(findings, type) ==
    SelectSeq(findings, LAMBDA f : f.type = type)

\* sum(1 for f in findings if f.fix_available)
RECURSIVE FixableCount(_)
FixableCount(findings) ==
    IF findings = <<>> THEN 0
    ELSE (IF Head(findings).fix_available THEN 1 ELSE 0)
         + FixableCount(Tail(findings))

\* An urgent recommendation only from the second critical finding on.
CriticalRule_many(findings) ==
    LET critical_count == SeverityCount(findings, "critical")
    IN  IF critical_count > 1
        THEN << Recommendation("urgent", "Critical Issues",
                               <<"Fix {} critical issue(s) immediately", critical_count>>,
                               IF critical_count > 10 THEN "high" ELSE "medium") >>
        ELSE <<>>

CriticalRule(findings) ==
    LET critical_count == SeverityCount(findings, "critical")
    IN  IF critical_count > 0
        THEN << Recommendation("urgent", "Critical Issues",
                               <<"Fix {} critical issue(s) immediately", critical_count>>,
                               IF critical_count > 10 THEN "high" ELSE "medium") >>
        ELSE <<>>

\* The high-severity rule chained to the critical one with elif.
HighRule_elif(findings) ==
    LET high_count == SeverityCount(findings, "high")
    IN  IF SeverityCount(findings, "critical") > 0 THEN <<>>
        ELSE IF high_count > 5
        THEN << Recommendation("high", "High Severity Issues",
                               <<"Address {} high-severity issues", high_count>>,
                               IF high_count > 20 THEN "high" ELSE "medium") >>
        ELSE <<>>

HighRule(findings) ==
    LET high_count == SeverityCount(findings, "high")
    IN  IF high_count > 5
        THEN << Recommendation("high", "High Severity Issues",
                               <<"Address {} high-severity issues", high_count>>,
                               IF high_count > 20 THEN "high" ELSE "medium") >>
        ELSE <<>>

\* The complexity rule with an inclusive threshold.
ComplexityRule_inclusive(findings) ==
    LET complexity_issues == IssuesOfType(findings, "complexity")
    IN  IF Len(complexity_issues) >= 5
        THEN << Recommendation("medium", "Code Complexity",
                               <<"Refactor {} complex functions", Len(complexity_issues)>>,
                               "high") >>
        ELSE <<>>

ComplexityRule(findings) ==
    LET complexity_issues == IssuesOfType(findings, "complexity")
    IN  IF Len(complexity_issues) > 5
        THEN << Recommendation("medium", "Code Complexity",
                               <<"Refactor {} complex functions", Len(complexity_issues)>>,
                               "high") >>
        ELSE <<>>

TypeSafetyRule(findings) ==
    LET type_errors == IssuesOfType(findings, "type_error")
    IN  IF Len(type_errors) > 10
        THEN << Recommendation("high", "Type Safety",
                               <<"Improve type annotations and fix type errors">>,
                               "medium") >>
        ELSE <<>>

\* `git_metrics and git_metrics.hot_spots`: a GitMetrics object is truthy.
HotSpotRule(metrics) ==
    IF metrics # None /\ metrics[1].hot_spots # <<>>
    THEN << Recommendation("medium", "Code Hot Spots",
                           <<"Review and potentially refactor {} frequently-changed files",
                             Len(metrics[1].hot_spots)>>,
                           "high") >>
    ELSE <<>>

LargeFilesRule(metrics) ==
    IF metrics # None /\ metrics[1].large_files # <<>>
    THEN << Recommendation("low", "Large Files",
                           <<"Consider splitting {} large files",
                             Len(metrics[1].large_files)>>,
                           "medium") >>
    ELSE <<>>

QuickWinsRule(findings) ==
    LET fixable_count == FixableCount(findings)
    IN  IF fixable_count > 0
        THEN << Recommendation("low", "Quick Wins",
                               <<"Run auto-fix for {} fixable issues", fixable_count>>,
                               "low") >>
        ELSE <<>>

_generate_recommendations(findings, metrics) ==
    CriticalRule(findings) \o HighRule(findings) \o ComplexityRule(findings)
        \o TypeSafetyRule(findings) \o HotSpotRule(metrics)
        \o LargeFilesRule(metrics) \o QuickWinsRule(findings)

(***************************************************************************)
(* Syntax trees.  A tree is the sequence of its nodes below the Module     *)
(* root, in source (pre-)order; parent = 0 is the Module.  A BoolOp's      *)
(* operands are its `names` plain operands and its child expressions.  A   *)
(* function's node.args.posonlyargs and node.args.args are kept by their   *)
(* lengths, posonlyargs and nargs.                                         *)
(***************************************************************************)
Node(kind, parent, name, lineno, end_lineno, posonlyargs, nargs, names) ==
    [kind |-> kind, parent |-> parent, name |-> name, lineno |-> lineno,
     col_offset |-> 0, end_lineno |-> end_lineno, posonlyargs |-> posonlyargs,
     nargs |-> nargs, names |-> names]

\* The child nodes of node i, in order (ast.iter_child_nodes).
Children(t, i) ==
    SelectSeq([j \in 1..Len(t) |-> j], LAMBDA j : t[j].parent = i)

\* len(node.values) of a BoolOp
NumValues(t, i) == t[i].names + Len(Children(t, i))

(***************************************************************************)
(* ast_analyzer.py: ComplexityVisitor.  visit(t, i, complexity) is the     *)
(* value of self.complexity after visiting node i.                         *)
(***************************************************************************)
RECURSIVE visit(_, _, _)
RECURSIVE visit_children(_, _, _)

visit_children(t, nodes, complexity) ==
    IF nodes = <<>> THEN complexity
    ELSE visit_children(t, Tail(nodes), visit(t, Head(nodes), complexity))

generic_visit(t, i, complexity) ==
    visit_children(t, Children(t, i), complexity)

\* A visit_If that forgets self.generic_visit(node).
visit_If_no_descent(t, i, complexity) == complexity + 1

visit_If(t, i, complexity) == generic_visit(t, i, complexity + 1)

visit_For(t, i, complexity) == generic_visit(t, i, complexity + 1)

visit_While(t, i, complexity) == generic_visit(t, i, complexity + 1)

visit_ExceptHandler(t, i, complexity) == generic_visit(t, i, complexity + 1)

visit_With(t, i, complexity) == generic_visit(t, i, complexity + 1)

visit_BoolOp(t, i, complexity) ==
    generic_visit(t, i, complexity + NumValues(t, i) - 1)

\* NodeVisitor.visit: visit_<ClassName> when the visitor defines it.
visit(t, i, complexity) ==
    CASE t[i].kind = "If" -> visit_If(t, i, complexity)
      [] t[i].kind = "For" -> visit_For(t, i, complexity)
      [] t[i].kind = "While" -> visit_While(t, i, complexity)
      [] t[i].kind = "ExceptHandler" -> visit_ExceptHandler(t, i, complexity)
      [] t[i].kind = "With" -> visit_With(t, i, complexity)
      [] t[i].kind = "BoolOp" -> visit_BoolOp(t, i, complexity)
      [] OTHER -> generic_visit(t, i, complexity)

\* visitor = ComplexityVisitor(); visitor.visit(node); visitor.complexity
Complexity(t, i) == visit(t, i, 1)

(***************************************************************************)
(* ast_analyzer.py: ASTAnalyzer                                            *)
(***************************************************************************)
\* High from twice the threshold on, instead of above it.
ComplexitySeverity_inclusive(complexity, threshold) ==
    IF complexity >= threshold * 2 THEN "high" ELSE "medium"

ComplexitySeverity(complexity, threshold) ==
    IF complexity > threshold * 2 THEN "high" ELSE "medium"

ComplexityFinding(t, i, file_path, threshold) ==
    LET complexity == Complexity(t, i)
    IN  IF complexity > threshold
        THEN << Finding("complexity", ComplexitySeverity(complexity, threshold),
                        Location(file_path, Some(t[i].lineno), Some(t[i].col_offset),
                                 None, Some(t[i].name)),
                        <<"Function '{}' has high cyclomatic complexity ({})",
                          t[i].name, complexity>>,
                        Some(<<"AST100">>), FALSE) >>
        ELSE <<>>

ArgumentsFinding(t, i, file_path) ==
    LET arg_count == t[i].nargs
    IN  IF arg_count > 7
        THEN << Finding("code_smell", "medium",
                        Location(file_path, Some(t[i].lineno), Some(t[i].col_offset),
                                 None, Some(t[i].name)),
                        <<"Function '{}' has too many arguments ({})",
                          t[i].name, arg_count>>,
                        Some(<<"AST101">>), FALSE) >>
        ELSE <<>>

\* `hasattr(node, "end_lineno") and node.end_lineno`: None and 0 are falsy.
LengthFinding(t, i, file_path) ==
    IF t[i].end_lineno # None /\ t[i].end_lineno[1] # 0
    THEN LET func_length == t[i].end_lineno[1] - t[i].lineno
         IN  IF func_length > 50
             THEN << Finding("maintainability", "low",
                             Location(file_path, Some(t[i].lineno),
                                      Some(t[i].col_offset), t[i].end_lineno,
                                      Some(t[i].name)),
                             <<"Function '{}' is very long ({} lines)",
                               t[i].name, func_length>>,
                             Some(<<"AST102">>), FALSE) >>
             ELSE <<>>
    ELSE <<>>

_analyze_function(t, i, file_path, threshold) ==
    ComplexityFinding(t, i, file_path, threshold)
        \o ArgumentsFinding(t, i, file_path)
        \o LengthFinding(t, i, file_path)

_analyze_class(t, i, file_path) ==
    LET methods == SelectSeq(Children(t, i), LAMBDA j : t[j].kind = "FunctionDef")
    IN  IF Len(methods) > 20
        THEN << Finding("code_smell", "medium",
                        Location(file_path, Some(t[i].lineno), Some(t[i].col_offset),
                                 None, None),
                        <<"Class '{}' has too many methods ({}). Consider splitting it.",
                          t[i].name, Len(methods)>>,
                        Some(<<"AST200">>), FALSE) >>
        ELSE <<>>

\* ast.walk: breadth-first from the root, a node's children queued in order.
RECURSIVE walk(_, _)
walk(t, todo) ==
    IF todo = <<>> THEN <<>>
    ELSE <<Head(todo)>> \o walk(t, Tail(todo) \o Children(t, Head(todo)))

RECURSIVE AnalyzeNodes(_, _, _, _)
AnalyzeNodes(t, nodes, file_path, threshold) ==
    IF nodes = <<>> THEN <<>>
    ELSE LET i == Head(nodes)
             found == IF t[i].kind = "FunctionDef"
                      THEN _analyze_function(t, i, file_path, threshold)
                      ELSE IF t[i].kind = "ClassDef"
                      THEN _analyze_class(t, i, file_path)
                      ELSE <<>>
         IN  found \o AnalyzeNodes(t, Tail(nodes), file_path, threshold)

\* The Module root is neither a function nor a class: the walk starts at its
\* children.
_analyze_tree(t, file_path, threshold) ==
    AnalyzeNodes(t, walk(t, Children(t, 0)), file_path, threshold)

\* A source file: how reading and parsing it ends, and the tree when it parses.
\*   "ok"            open, read and ast.parse succeed
\*   "syntax_error"  ast.parse raises SyntaxError(msg, lineno, offset)
\*   "os_error"      open or read raises (missing, unreadable, not UTF-8)
\*   "tree_error"    _analyze_tree raises (RecursionError on a deep tree)
SourceFile(outcome, t, lineno, offset) ==
    [outcome |-> outcome, tree |-> t, lineno |-> lineno, offset |-> offset]

\* `e.lineno or 0`: None and 0 give 0.
OrZero(optional) == IF optional = None THEN 0 ELSE optional[1]

\* A handler that keeps what the tree analysis found before it raised.
AnalysisFailure_keeps_partial(file, file_path, threshold) ==
    _analyze_tree(file.tree, file_path, threshold)
        \o << Finding("bug", "high",
                      Location(file_path, None, None, None, None),
                      <<"Failed to analyze file: {}", file.outcome>>,
                      Some(<<"AST000">>), FALSE) >>

\* `except Exception`: _analyze_tree collects into a list of its own, which is
\* lost when it raises, so the handler appends to an empty list.
AnalysisFailure(file, file_path, threshold) ==
    << Finding("bug", "high",
               Location(file_path, None, None, None, None),
               <<"Failed to analyze file: {}", file.outcome>>,
               Some(<<"AST000">>), FALSE) >>

analyze_file(file, file_path, threshold) ==
    CASE file.outcome = "ok" ->
            _analyze_tree(file.tree, file_path, threshold)
      [] file.outcome = "syntax_error" ->
            << Finding("bug", "critical",
                       Location(file_path, Some(OrZero(file.lineno)),
                                Some(OrZero(file.offset)), None, None),
                       <<"Syntax error: {}", "invalid syntax">>,
                       Some(<<"AST001">>), FALSE) >>
      [] OTHER -> AnalysisFailure(file, file_path, threshold)

\* part.startswith(".")
StartsWithDot(part) == part[1] = "."

ExcludedNames == {<<"_", "_pycache__">>, <<"v", "env">>, <<"e", "nv">>,
                  <<".", "venv">>, <<"n", "ode_modules">>}

\* The two `continue` tests of the directory loops, over py_file.parts.
Skipped(parts) ==
    \/ \E k \in 1..Len(parts) : StartsWithDot(parts[k])
    \/ \E k \in 1..Len(parts) : parts[k] \in ExcludedNames

\* directory.rglob("*.py") yields directory / rel for each file below it, so
\* py_file.parts starts with the directory's own components.
\* A scan that ends at the first file that cannot be read or parsed.
RECURSIVE AnalyzeFiles_abort(_, _, _)
AnalyzeFiles_abort(directory, files, threshold) ==
    IF files = <<>> THEN <<>>
    ELSE LET py_file == directory \o Head(files).rel
         IN  IF Skipped(py_file)
             THEN AnalyzeFiles_abort(directory, Tail(files), threshold)
             ELSE IF Head(files).source.outcome # "ok"
             THEN analyze_file(Head(files).source, py_file, threshold)
             ELSE analyze_file(Head(files).source, py_file, threshold)
                      \o AnalyzeFiles_abort(directory, Tail(files), threshold)

RECURSIVE AnalyzeFiles(_, _, _)
AnalyzeFiles(directory, files, threshold) ==
    IF files = <<>> THEN <<>>
    ELSE LET py_file == directory \o Head(files).rel
         IN  (IF Skipped(py_file) THEN <<>>
              ELSE analyze_file(Head(files).source, py_file, threshold))
             \o AnalyzeFiles(directory, Tail(files), threshold)

analyze_directory(directory, files, threshold) ==
    AnalyzeFiles(directory, files, threshold)

(***************************************************************************)
(* Collaborator runs.  subprocess.run ends in one of:                      *)
(*   "completed"  the tool ran; stdout is its output (any exit status)     *)
(*   "timeout"    subprocess.TimeoutExpired                                *)
(*   "not_found"  FileNotFoundError: no such executable                    *)
(*   "error"      any other exception (PermissionError, OSError, ...)      *)
(***************************************************************************)
ToolRun(outcome, stdout) == [outcome |-> outcome, stdout |-> stdout]

\* What a call gives back: a value, or an exception leaving it.
Returns(value) == [raised |-> FALSE, value |-> value]
Raises(exception) == [raised |-> TRUE, value |-> exception]

(***************************************************************************)
(* ruff_analyzer.py.  A JSON value is [t |-> "null"], [t |-> "str", v],    *)
(* [t |-> "int", v] or [t |-> "obj", v], v a function from the keys        *)
(* present to JSON values.  The linter's stdout is [json |-> "empty"] (no   *)
(* output), [json |-> "invalid"] or [json |-> "array", items |-> <<..>>].  *)
(* A rule code is the sequence of its characters.                          *)
(***************************************************************************)
JNull == [t |-> "null"]
JStr(v) == [t |-> "str", v |-> v]
JInt(v) == [t |-> "int", v |-> v]
JObj(v) == [t |-> "obj", v |-> v]

\* dict.get(key, default)
Get(dict, key, default) == IF key \in DOMAIN dict THEN dict[key] ELSE default

EmptyDict == [k \in {} |-> JNull]

\* char.isalpha(), for the characters rule codes are written with.
Letters == {"A", "B", "C", "D", "E", "F", "I", "L", "M", "N", "P", "R", "S", "T",
            "U", "W"}

RuffSeverityMap ==
    [prefix \in {<<"E">>, <<"F">>, <<"W">>, <<"I">>, <<"N">>, <<"U", "P">>, <<"S">>,
                 <<"B">>, <<"A">>, <<"C", "4">>, <<"T", "2", "0">>} |->
        CASE prefix = <<"E">> -> "medium"
          [] prefix = <<"F">> -> "high"
          [] prefix = <<"W">> -> "low"
          [] prefix = <<"I">> -> "low"
          [] prefix = <<"N">> -> "low"
          [] prefix = <<"U", "P">> -> "medium"
          [] prefix = <<"S">> -> "high"
          [] prefix = <<"B">> -> "medium"
          [] prefix = <<"A">> -> "medium"
          [] prefix = <<"C", "4">> -> "low"
          [] prefix = <<"T", "2", "0">> -> "low"]

\* The loop of _get_severity_for_rule: the leading run of alphabetic characters.
RECURSIVE AlphaPrefix(_)
AlphaPrefix(rule_code) ==
    IF rule_code = <<>> THEN <<>>
    ELSE IF Head(rule_code) \in Letters
         THEN <<Head(rule_code)>> \o AlphaPrefix(Tail(rule_code))
         ELSE <<>>

\* The severity looked up by the first character alone.
SeverityForRule_first_letter(rule_code) ==
    IF rule_code = <<>> THEN "medium"
    ELSE Get(RuffSeverityMap, <<Head(rule_code)>>, "medium")

_get_severity_for_rule(rule_code) ==
    Get(RuffSeverityMap, AlphaPrefix(rule_code), "medium")

\* str.startswith
StartsWith(str, prefix) ==
    Len(str) >= Len(prefix) /\ SubSeq(str, 1, Len(prefix)) = prefix

_get_finding_type(rule_code) ==
    IF StartsWith(rule_code, <<"S">>) THEN "security"
    ELSE IF StartsWith(rule_code, <<"F">>) \/ StartsWith(rule_code, <<"E", "9">>)
    THEN "bug"
    ELSE IF \E c \in {"E", "W", "I", "N"} : StartsWith(rule_code, <<c>>)
    THEN "style"
    ELSE IF StartsWith(rule_code, <<"P", "E", "R", "F">>) THEN "performance"
    ELSE "code_smell"

\* An Optional[int] field taken from a JSON object with .get(key): the key
\* absent or null gives None.
OptionalInt(dict, key) ==
    LET x == Get(dict, key, JNull)
    IN  IF x.t = "int" THEN Some(x.v) ELSE None

\* _convert_ruff_issue raises when .get is called on a location that is not
\* an object (AttributeError), when the code is not a string (TypeError in
\* the prefix loop), and when pydantic rejects a field: file and message
\* must be strings, line, column and end_line integers or None.
ConvertRaises(issue) ==
    LET location_data == Get(issue, "location", JObj(EmptyDict))
        end_location == Get(issue, "end_location", JObj(EmptyDict))
    IN  \/ location_data.t # "obj"
        \/ end_location.t # "obj"
        \/ Get(issue, "filename", JStr(<<>>)).t # "str"
        \/ \E k \in {"row", "column"} :
              Get(location_data.v, k, JNull).t \notin {"int", "null"}
        \/ Get(end_location.v, "row", JNull).t \notin {"int", "null"}
        \/ Get(issue, "code", JStr(<<>>)).t # "str"
        \/ Get(issue, "message", JStr(<<>>)).t # "str"

_convert_ruff_issue(issue) ==
    IF ConvertRaises(issue) THEN Raises("Exception")
    ELSE LET location_data == Get(issue, "location", JObj(EmptyDict)).v
             end_location == Get(issue, "end_location", JObj(EmptyDict)).v
             location == Location(Get(issue, "filename", JStr(<< <<"u", "nknown">> >>)).v,
                                  OptionalInt(location_data, "row"),
                                  OptionalInt(location_data, "column"),
                                  OptionalInt(end_location, "row"),
                                  None)
             rule_code == Get(issue, "code", JStr(<<>>)).v
             fix_available == Get(issue, "fix", JNull).t # "null"
         IN  Returns(Finding(_get_finding_type(rule_code),
                             _get_severity_for_rule(rule_code),
                             location,
                             <<Get(issue, "message", JStr("No message provided")).v>>,
                             Some(rule_code),
                             fix_available))

RECURSIVE ConvertIssues(_, _)
ConvertIssues(issues, findings) ==
    IF issues = <<>> THEN Returns(findings)
    ELSE LET converted == _convert_ruff_issue(Head(issues))
         IN  IF converted.raised THEN converted
             ELSE ConvertIssues(Tail(issues), Append(findings, converted.value))

\* A parser that lets the JSONDecodeError leave it.
ParseRuffOutput_raises(stdout) ==
    IF stdout.json = "invalid" THEN Raises("JSONDecodeError")
    ELSE ConvertIssues(stdout.items, <<>>)

\* json.loads raises JSONDecodeError on text that is not JSON; any other
\* exception of the loop leaves _parse_ruff_output.
_parse_ruff_output(stdout) ==
    IF stdout.json = "invalid"
    THEN Returns(<< Finding("bug", "medium",
                            Location(<< <<"r", "uff_output">> >>, None, None, None, None),
                            <<"Failed to parse ruff output: {}", "JSONDecodeError">>,
                            Some(<<"RUFF003">>), FALSE) >>)
    ELSE ConvertIssues(stdout.items, <<>>)

RuffFailure(directory, severity, message, rule_id) ==
    << Finding("bug", severity, Location(directory, None, None, None, None),
               message, Some(<<rule_id>>), FALSE) >>

\* The linter counts as critical when its executable is missing.
RuffMissingSeverity_high == "high"

RuffMissingSeverity == "critical"

RuffAnalyzer_analyze_directory(directory, run) ==
    CASE run.outcome = "timeout" ->
            RuffFailure(directory, "high",
                        <<"Ruff analysis timed out after 5 minutes">>, "RUFF000")
      [] run.outcome = "not_found" ->
            RuffFailure(directory, RuffMissingSeverity,
                        <<"Ruff not found. Please install: pip install ruff">>, "RUFF001")
      [] run.outcome = "error" ->
            RuffFailure(directory, "high",
                        <<"Failed to run ruff: {}", "OSError">>, "RUFF002")
      [] OTHER ->
            IF run.stdout.json = "empty" THEN <<>>
            ELSE LET parsed == _parse_ruff_output(run.stdout)
                 IN  IF parsed.raised
                     THEN RuffFailure(directory, "high",
                                      <<"Failed to run ruff: {}", parsed.value>>, "RUFF002")
                     ELSE parsed.value

(***************************************************************************)
(* mypy_analyzer.py.  The type checker's stdout is a sequence of lines:    *)
(*   [kind |-> "diag", file, line, col, level, message, code]              *)
(*        a line `file:line:col: level: message [code]`, code Optional     *)
(*   [kind |-> "plain", text]   a line without any colon                   *)
(*   [kind |-> "colon", text]   any other line that holds a colon          *)
(* The pattern is tried at each line start.  Its file group [^:]+ also     *)
(* takes line breaks: it runs from the line start to the first colon of    *)
(* the text, so the colon-free lines just before a diagnostic line become  *)
(* part of that diagnostic's file.  `text` is a path component.            *)
(***************************************************************************)
MypySeverityMap ==
    [code \in {"syntax", "attr-defined", "name-defined", "call-arg", "arg-type",
               "return-value", "assignment", "type-arg", "no-untyped-def",
               "no-any-return", "unused-ignore"} |->
        CASE code = "syntax" -> "critical"
          [] code \in {"attr-defined", "name-defined", "call-arg"} -> "high"
          [] code \in {"arg-type", "return-value", "assignment", "type-arg"} -> "medium"
          [] code \in {"no-untyped-def", "no-any-return"} -> "low"
          [] code = "unused-ignore" -> "info"]

\* A lookup that falls back to low.
SeverityForCode_default_low(error_code) ==
    IF error_code # None /\ error_code[1] \in DOMAIN MypySeverityMap
    THEN MypySeverityMap[error_code[1]]
    ELSE "low"

\* SEVERITY_MAP.get(error_code, Severity.MEDIUM); error_code is None when the
\* line has no [code].
_get_severity_for_code(error_code) ==
    IF error_code # None /\ error_code[1] \in DOMAIN MypySeverityMap
    THEN MypySeverityMap[error_code[1]]
    ELSE "medium"

\* match_dict: the groups of one match; code is None when the group is absent.
_convert_mypy_match(match_dict) ==
    LET level == match_dict.level
        error_code == match_dict.code
        severity == IF level = "error" THEN _get_severity_for_code(error_code)
                    ELSE IF level = "warning" THEN "low"
                    ELSE IF level = "note" THEN "info"
                    ELSE "medium"
    IN  Finding("type_error", severity,
                Location(match_dict.file, Some(match_dict.line), Some(match_dict.col),
                         None, None),
                <<match_dict.message>>,
                IF error_code # None THEN Some(<<"mypy:", error_code[1]>>)
                ELSE Some(<<"mypy">>),
                FALSE)

\* pattern.finditer from line `start`, `taken` being the colon-free lines the
\* file group has run over since the attempt began.
RECURSIVE FindMatches(_, _, _)
FindMatches(lines, start, taken) ==
    IF start > Len(lines) THEN <<>>
    ELSE LET l == lines[start]
         IN  CASE l.kind = "plain" ->
                    FindMatches(lines, start + 1, Append(taken, l.text))
               [] l.kind = "colon" ->
                    FindMatches(lines, start + 1, <<>>)
               [] OTHER ->
                    << [file |-> taken \o l.file, line |-> l.line, col |-> l.col,
                        level |-> l.level, message |-> l.message, code |-> l.code] >>
                        \o FindMatches(lines, start + 1, <<>>)

RECURSIVE ConvertMatches(_)
ConvertMatches(matches) ==
    IF matches = <<>> THEN <<>>
    ELSE <<_convert_mypy_match(Head(matches))>> \o ConvertMatches(Tail(matches))

_parse_mypy_output(stdout) == ConvertMatches(FindMatches(stdout, 1, <<>>))

MypyFailure(directory, severity, message, rule_id) ==
    << Finding("bug", severity, Location(directory, None, None, None, None),
               message, Some(<<rule_id>>), FALSE) >>

\* A timeout handled like a missing executable.
MypyTimeoutSeverity_medium == "medium"

MypyTimeoutSeverity == "high"

MypyAnalyzer_analyze_directory(directory, run) ==
    CASE run.outcome = "timeout" ->
            MypyFailure(directory, MypyTimeoutSeverity,
                        <<"Mypy analysis timed out after 10 minutes">>, "MYPY000")
      [] run.outcome = "not_found" ->
            MypyFailure(directory, "medium",
                        <<"Mypy not found. Install with: pip install mypy">>, "MYPY001")
      [] run.outcome = "error" ->
            MypyFailure(directory, "high",
                        <<"Failed to run mypy: {}", "OSError">>, "MYPY002")
      [] OTHER ->
            IF run.stdout = <<>> THEN <<>> ELSE _parse_mypy_output(run.stdout)

(***************************************************************************)
(* repo_analyzer.py.  A repository is [commits, working_dir]: commits      *)
(* newest first, each [files |-> <<names>>, stats |-> "ok" | "raises"].    *)
(* A Counter here is the sequence of its <<key, count>> pairs in the       *)
(* order the keys were first counted.                                      *)
(***************************************************************************)
hot_spot_threshold == 10

commit_limit == 1000

large_file_threshold == 500

list_limit == 20

\* for file in commit.stats.files: file_changes[file] += 1
\* commit.stats.files is a dict, so a commit names a file once: a file counted
\* before keeps its place, a new file joins at the end.
CountFiles(file_changes, items) ==
    LET known == {file_changes[i][1] : i \in 1..Len(file_changes)}
        fresh == SelectSeq(items, LAMBDA file : file \notin known)
    IN  [i \in 1..Len(file_changes) |->
            IF \E j \in 1..Len(items) : items[j] = file_changes[i][1]
            THEN <<file_changes[i][1], file_changes[i][2] + 1>>
            ELSE file_changes[i]]
            \o [j \in 1..Len(fresh) |-> <<fresh[j], 1>>]

\* A commit whose stats cannot be read is skipped.
RECURSIVE CountCommits(_, _)
CountCommits(file_changes, commits) ==
    IF commits = <<>> THEN file_changes
    ELSE CountCommits(IF Head(commits).stats = "ok"
                      THEN CountFiles(file_changes, Head(commits).files)
                      ELSE file_changes,
                      Tail(commits))

FirstN(seq, n) == SubSeq(seq, 1, IF Len(seq) < n THEN Len(seq) ELSE n)

\* Counter.most_common: by decreasing count, equal counts in insertion order.
RECURSIVE most_common(_)
most_common(file_changes) ==
    IF file_changes = <<>> THEN <<>>
    ELSE LET best == CHOOSE i \in 1..Len(file_changes) :
                        \A j \in 1..Len(file_changes) :
                            \/ file_changes[j][2] < file_changes[i][2]
                            \/ file_changes[j][2] = file_changes[i][2] /\ i <= j
         IN  <<file_changes[best]>>
                 \o most_common(SubSeq(file_changes, 1, best - 1)
                                    \o SubSeq(file_changes, best + 1, Len(file_changes)))

\* The twenty most changed files, whatever their counts.
HotSpots_unfiltered(commits) ==
    LET top == FirstN(most_common(CountCommits(<<>>, FirstN(commits, commit_limit))), list_limit)
    IN  [i \in 1..Len(top) |-> top[i][1]]

HotSpots(commits) ==
    LET file_changes == CountCommits(<<>>, FirstN(commits, commit_limit))
        top == FirstN(most_common(file_changes), list_limit)
        hot == SelectSeq(top, LAMBDA entry : entry[2] >= hot_spot_threshold)
    IN  [i \in 1..Len(hot) |-> hot[i][1]]

\* _find_large_files: the .py files of the working tree with more than
\* large_file_threshold lines, hidden and excluded paths and unreadable files
\* left out, the first list_limit of them.
RECURSIVE LargeFiles(_, _)
LargeFiles(working_dir, files) ==
    IF files = <<>> THEN <<>>
    ELSE LET py_file == working_dir \o Head(files).rel
             rest == LargeFiles(working_dir, Tail(files))
         IN  IF \/ \E k \in 1..Len(py_file) : py_file[k][1] = "."
                \/ \E k \in 1..Len(py_file) :
                      py_file[k] \in {<<"_", "_pycache__">>, <<"v", "env">>,
                                      <<"e", "nv">>, <<".", "venv">>,
                                      <<"n", "ode_modules">>}
                \/ Head(files).source.outcome = "os_error"
                \/ ~(Head(files).lines > large_file_threshold)
             THEN rest
             ELSE << <<Head(files).rel, Head(files).lines>> >> \o rest

_find_large_files(working_dir, files) ==
    FirstN(LargeFiles(working_dir, files), list_limit)

GitRepoAnalyzer_analyze(repo, files) ==
    GitMetrics(Len(repo.commits), HotSpots(repo.commits),
               _find_large_files(repo.working_dir, files))

\* analyze_git_repo: None without GitPython, outside a repository and on any
\* other exception.
\*   "ok"            a repository that can be read
\*   "no_gitpython"  GIT_AVAILABLE is False
\*   "not_a_repo"    Repo() raises InvalidGitRepositoryError
\*   "error"         anything else raised by Repo() or analyze()
analyze_git_repo(run, files) ==
    IF run.outcome = "ok" THEN Some(GitRepoAnalyzer_analyze(run.repo, files))
    ELSE None

(***************************************************************************)
(* Bounded syntax trees: every well-formed tree of at most MaxNodes nodes  *)
(* below the Module.  An expression holds only expressions, an except      *)
(* clause sits in a try statement.  A node starts on the line after the    *)
(* last line written so far, is followed by `pad` lines of plain           *)
(* statements of its own, and ends, like each of its ancestors, on the     *)
(* last line of what it holds.                                             *)
(***************************************************************************)
StmtKinds == {"FunctionDef", "AsyncFunctionDef", "ClassDef", "If", "For",
              "While", "With", "Try"}

ExprKinds == {"BoolOp"}

BoolOpNames == {2, 3}

Variant(kind, names, posonlyargs, nargs, pad) ==
    [kind |-> kind, names |-> names, posonlyargs |-> posonlyargs,
     nargs |-> nargs, pad |-> pad]

\* def f(): ...;  def f(a1, ..., a7) of 52 lines;  def f(a1, ..., a8) of 51
\* lines;  def f(p, /, a1, ..., a7)
FunctionVariants ==
    {Variant("FunctionDef", 0, 0, 0, 0), Variant("FunctionDef", 0, 0, 7, 51),
     Variant("FunctionDef", 0, 0, 8, 50), Variant("FunctionDef", 0, 1, 7, 0)}

NodeVariants ==
    {Variant(k, 0, 0, 0, 0) :
        k \in (StmtKinds \ {"FunctionDef"}) \cup {"ExceptHandler"}}
        \cup {Variant("BoolOp", n, 0, 0, 0) : n \in BoolOpNames}
        \cup FunctionVariants

RECURSIVE Ancestors(_, _)
Ancestors(t, i) == IF i = 0 THEN {0} ELSE {i} \cup Ancestors(t, t[i].parent)

MayContain(t, p, kind) ==
    LET pk == IF p = 0 THEN "Module" ELSE t[p].kind
    IN  /\ kind = "ExceptHandler" => pk = "Try"
        /\ pk \in ExprKinds => kind \in ExprKinds

NodeName(j) == IF j % 2 = 1 THEN "f" ELSE "g"

Descendants(t, i) == {j \in 1..Len(t) : i \in Ancestors(t, j)}

\* The last line written so far: the largest end_lineno.
LastLine(t) ==
    IF t = <<>> THEN 0
    ELSE LET ends == {t[j].end_lineno[1] : j \in 1..Len(t)}
         IN  CHOOSE l \in ends : \A k \in ends : k <= l

\* Every node that holds the last node ends where the last node ends.
WithEndLines(t) ==
    [j \in 1..Len(t) |->
        IF j \in Ancestors(t, Len(t))
        THEN [t[j] EXCEPT !.end_lineno = t[Len(t)].end_lineno]
        ELSE t[j]]

\* The source with one more node written after its last line: the new node
\* goes under the last node or one of its ancestors.
Extended(t, variant, p) ==
    LET lineno == LastLine(t) + 1
    IN  WithEndLines(Append(t, Node(variant.kind, p, NodeName(Len(t) + 1), lineno,
                                    Some(lineno + variant.pad), variant.posonlyargs,
                                    variant.nargs, variant.names)))

FailingFiles ==
    {SourceFile("syntax_error", <<>>, l, o) :
        l \in {None, Some(3)}, o \in {None, Some(5)}}
        \cup {SourceFile("os_error", <<>>, None, None)}

\* The file with a further construct on which the tree analysis raises.
TreeFailures(file) ==
    IF Len(file.tree) < MaxNodes
    THEN {[file EXCEPT !.outcome = "tree_error"]}
    ELSE {}

SamplePath == << <<"r", "epo">>, <<"m", "od.py">> >>

(***************************************************************************)
(* SpecAst: ASTAnalyzer(complexity_threshold).analyze_file(file_path) on   *)
(* a source file that was written node by node.                            *)
(***************************************************************************)
PipelineIdle ==
    /\ repo_path = <<>>
    /\ output = None
    /\ skip_git = FALSE /\ skip_ruff = FALSE /\ skip_mypy = FALSE /\ skip_ast = FALSE
    /\ fs = <<>>
    /\ tool_run = <<>>
    /\ all_findings = <<>>
    /\ ast_findings = None /\ ruff_findings = None /\ mypy_findings = None
    /\ git_metrics = None
    /\ python_files = None
    /\ summary = None
    /\ recommendations = None
    /\ result = None
    /\ emitted = None
    /\ exit_code = None

InitAst ==
    /\ pc = "source"
    /\ tree = SourceFile("ok", <<>>, None, None)
    /\ complexity_threshold = None
    /\ file_findings = None
    /\ PipelineIdle

WriteSource ==
    /\ pc = "source"
    /\ Len(tree.tree) < MaxNodes
    /\ \E variant \in NodeVariants, p \in Ancestors(tree.tree, Len(tree.tree)) :
          /\ MayContain(tree.tree, p, variant.kind)
          /\ tree' = [tree EXCEPT !.tree = Extended(tree.tree, variant, p)]
    /\ UNCHANGED <<pc, repo_path, output, complexity_threshold, skip_git,
                   skip_ruff, skip_mypy, skip_ast, fs, tool_run, all_findings,
                   ast_findings, ruff_findings, mypy_findings, git_metrics,
                   python_files, summary, recommendations, result, emitted,
                   exit_code, file_findings>>

\* The file as it is read: parsed, or one of the failures of reading it (a
\* file that fails has no tree).
AnalyzeFile ==
    /\ pc = "source"
    /\ \E threshold \in 1..MaxThreshold,
          file \in {tree} \cup TreeFailures(tree)
                       \cup (IF tree.tree = <<>> THEN FailingFiles ELSE {}) :
          /\ complexity_threshold' = Some(threshold)
          /\ tree' = file
          /\ file_findings' = Some(analyze_file(file, SamplePath, threshold))
    /\ pc' = "analyzed"
    /\ UNCHANGED <<repo_path, output, skip_git, skip_ruff, skip_mypy, skip_ast,
                   fs, tool_run, all_findings, ast_findings, ruff_findings,
                   mypy_findings, git_metrics, python_files, summary,
                   recommendations, result, emitted, exit_code>>

NextAst == WriteSource \/ AnalyzeFile

SpecAst == InitAst /\ [][NextAst]_vars

(***************************************************************************)
(* Inputs of the analyze command                                           *)
(***************************************************************************)
\* def f(): pass
CleanTree == Extended(<<>>, Variant("FunctionDef", 0, 0, 0, 0), 0)

\* def f():            complexity 3
\*     if a:
\*         if b: ...
NestedIfTree ==
    Extended(Extended(CleanTree, Variant("If", 0, 0, 0, 0), 1),
             Variant("If", 0, 0, 0, 0), 2)

PyFile(rel, source, lines) == [rel |-> rel, source |-> source, lines |-> lines]

SampleFiles ==
    << PyFile(<< <<"c", "lean.py">> >>, SourceFile("ok", CleanTree, None, None), 10),
       PyFile(<< <<"p", "kg">>, <<"n", "ested.py">> >>,
              SourceFile("ok", NestedIfTree, None, None), 501),
       PyFile(<< <<"b", "roken.py">> >>,
              SourceFile("syntax_error", <<>>, Some(3), None), 10),
       PyFile(<< <<"l", "atin1.py">> >>, SourceFile("os_error", <<>>, None, None), 10),
       PyFile(<< <<"v", "env">>, <<"l", "ib.py">> >>,
              SourceFile("syntax_error", <<>>, None, None), 600) >>

\* The listings of a tree holding at most MaxFiles of the sample files.
Listing(chosen) == SelectSeq(SampleFiles, LAMBDA f : f \in chosen)

Directories ==
    {Listing(chosen) : chosen \in {c \in SUBSET {SampleFiles[i] : i \in 1..Len(SampleFiles)} :
                                      Cardinality(c) <= MaxFiles}}

RepoPaths == { << <<"r", "epo">> >>, << <<".", "cache">>, <<"r", "epo">> >> }

CliThresholds == {1, 2}

OutFile == << <<"o", "ut.json">> >>

RuffIssue(code, fix) ==
    [k \in {"filename", "location", "end_location", "code", "message", "fix"} |->
        CASE k = "filename" -> JStr(<< <<"p", "kg">>, <<"n", "ested.py">> >>)
          [] k = "location" -> JObj([x \in {"row", "column"} |-> JInt(4)])
          [] k = "end_location" -> JObj([x \in {"row", "column"} |-> JInt(4)])
          [] k = "code" -> JStr(code)
          [] k = "message" -> JStr("unused import")
          [] k = "fix" -> fix]

RuffRuns ==
    { ToolRun("timeout", [json |-> "empty"]),
      ToolRun("not_found", [json |-> "empty"]),
      ToolRun("error", [json |-> "empty"]),
      ToolRun("completed", [json |-> "empty"]),
      ToolRun("completed", [json |-> "invalid"]),
      ToolRun("completed",
              [json |-> "array",
               items |-> << RuffIssue(<<"F", "4", "0", "1">>, JObj(EmptyDict)),
                            RuffIssue(<<"E", "5", "0", "1">>, JNull) >>]) }

MypyDiag(file, level, code) ==
    [kind |-> "diag", file |-> file, line |-> 7, col |-> 1, level |-> level,
     message |-> "incompatible", code |-> code]

MypyRuns ==
    { ToolRun("timeout", <<>>),
      ToolRun("not_found", <<>>),
      ToolRun("error", <<>>),
      ToolRun("completed", <<>>),
      ToolRun("completed",
              << MypyDiag(<< <<"c", "lean.py">> >>, "error", Some("arg-type")),
                 MypyDiag(<< <<"c", "lean.py">> >>, "note", None) >>),
      ToolRun("completed",
              << MypyDiag(<< <<"b", "roken.py">> >>, "error", Some("syntax")) >>) }

Commit(files) == [files |-> files, stats |-> "ok"]

GitRun(outcome, commits, working_dir) ==
    [outcome |-> outcome, repo |-> [commits |-> commits, working_dir |-> working_dir]]

\* Ten commits to one file and a single commit to another.
ChurnCommits ==
    [i \in 1..10 |-> Commit(IF i = 1 THEN << "cli.py", "setup.py" >> ELSE << "cli.py" >>)]

GitRuns(working_dir) ==
    { GitRun("no_gitpython", <<>>, working_dir),
      GitRun("not_a_repo", <<>>, working_dir),
      GitRun("error", <<>>, working_dir),
      GitRun("ok", << Commit(<< "cli.py" >>) >>, working_dir),
      GitRun("ok", ChurnCommits, working_dir) }

NoRuns == [ast |-> FALSE, ruff |-> None, mypy |-> None, git |-> None]

(***************************************************************************)
(* cli.py: analyze                                                         *)
(***************************************************************************)
ComponentIdle ==
    /\ tree = SourceFile("ok", <<>>, None, None)
    /\ file_findings = None

Init ==
    /\ pc = "ast"
    /\ repo_path \in RepoPaths
    /\ output \in {None, Some(OutFile)}
    /\ complexity_threshold \in {Some(th) : th \in CliThresholds}
    /\ skip_git \in BOOLEAN /\ skip_ruff \in BOOLEAN
    /\ skip_mypy \in BOOLEAN /\ skip_ast \in BOOLEAN
    /\ fs \in Directories
    /\ tool_run = NoRuns
    /\ all_findings = <<>>
    /\ ast_findings = None /\ ruff_findings = None /\ mypy_findings = None
    /\ git_metrics = None
    /\ python_files = None
    /\ summary = None
    /\ recommendations = None
    /\ result = None
    /\ emitted = None
    /\ exit_code = None
    /\ ComponentIdle

\* cli.py:83-91
RunAst ==
    /\ pc = "ast"
    /\ pc' = "ruff"
    /\ IF skip_ast
       THEN UNCHANGED <<ast_findings, all_findings, tool_run>>
       ELSE LET found == analyze_directory(repo_path, fs, complexity_threshold[1])
            IN  /\ ast_findings' = Some(found)
                /\ all_findings' = all_findings \o found
                /\ tool_run' = [tool_run EXCEPT !.ast = TRUE]
    /\ UNCHANGED <<repo_path, output, complexity_threshold, skip_git, skip_ruff,
                   skip_mypy, skip_ast, fs, ruff_findings, mypy_findings,
                   git_metrics, python_files, summary, recommendations, result,
                   emitted, exit_code, tree, file_findings>>

\* cli.py:93-102
RunRuff ==
    /\ pc = "ruff"
    /\ pc' = "mypy"
    /\ IF skip_ruff
       THEN UNCHANGED <<ruff_findings, all_findings, tool_run>>
       ELSE \E run \in RuffRuns :
               LET found == RuffAnalyzer_analyze_directory(repo_path, run)
               IN  /\ ruff_findings' = Some(found)
                   /\ all_findings' = all_findings \o found
                   /\ tool_run' = [tool_run EXCEPT !.ruff = Some(run)]
    /\ UNCHANGED <<repo_path, output, complexity_threshold, skip_git, skip_ruff,
                   skip_mypy, skip_ast, fs, ast_findings, mypy_findings,
                   git_metrics, python_files, summary, recommendations, result,
                   emitted, exit_code, tree, file_findings>>

\* cli.py:104-113
RunMypy ==
    /\ pc = "mypy"
    /\ pc' = "git"
    /\ IF skip_mypy
       THEN UNCHANGED <<mypy_findings, all_findings, tool_run>>
       ELSE \E run \in MypyRuns :
               LET found == MypyAnalyzer_analyze_directory(repo_path, run)
               IN  /\ mypy_findings' = Some(found)
                   /\ all_findings' = all_findings \o found
                   /\ tool_run' = [tool_run EXCEPT !.mypy = Some(run)]
    /\ UNCHANGED <<repo_path, output, complexity_threshold, skip_git, skip_ruff,
                   skip_mypy, skip_ast, fs, ast_findings, ruff_findings,
                   git_metrics, python_files, summary, recommendations, result,
                   emitted, exit_code, tree, file_findings>>

\* cli.py:115-126
RunGit ==
    /\ pc = "git"
    /\ pc' = "aggregate"
    /\ IF skip_git
       THEN UNCHANGED <<git_metrics, tool_run>>
       ELSE \E run \in GitRuns(repo_path) :
               /\ git_metrics' = analyze_git_repo(run, fs)
               /\ tool_run' = [tool_run EXCEPT !.git = Some(run)]
    /\ UNCHANGED <<repo_path, output, complexity_threshold, skip_git, skip_ruff,
                   skip_mypy, skip_ast, fs, all_findings, ast_findings,
                   ruff_findings, mypy_findings, python_files, summary,
                   recommendations, result, emitted, exit_code, tree,
                   file_findings>>

\* cli.py:128-138: repo_path.rglob("*.py") less the hidden and excluded paths.
PythonFiles(directory, files) ==
    SelectSeq(files, LAMBDA f : ~Skipped(directory \o f.rel))

\* cli.py:128-154: the file count, the summary, the recommendations and the
\* AnalysisResult built from them.
Aggregate ==
    /\ pc = "aggregate"
    /\ pc' = "output"
    /\ python_files' = Some(Len(PythonFiles(repo_path, fs)))
    /\ summary' = Some(_generate_summary(all_findings, Len(PythonFiles(repo_path, fs))))
    /\ recommendations' = Some(_generate_recommendations(all_findings, git_metrics))
    /\ result' = Some(AnalysisResult(repo_path, summary'[1], all_findings,
                                     recommendations'[1], git_metrics))
    /\ UNCHANGED <<repo_path, output, complexity_threshold, skip_git, skip_ruff,
                   skip_mypy, skip_ast, fs, tool_run, all_findings, ast_findings,
                   ruff_findings, mypy_findings, git_metrics, emitted, exit_code,
                   tree, file_findings>>

\* cli.py:156-164: the JSON document goes to the output file or to stdout.
Output ==
    /\ pc = "output"
    /\ pc' = "exit"
    /\ emitted' = Some([to |-> IF output # None THEN output[1] ELSE << <<"s", "tdout">> >>,
                        json |-> to_json(result[1])])
    /\ UNCHANGED <<repo_path, output, complexity_threshold, skip_git, skip_ruff,
                   skip_mypy, skip_ast, fs, tool_run, all_findings, ast_findings,
                   ruff_findings, mypy_findings, git_metrics, python_files,
                   summary, recommendations, result, exit_code, tree,
                   file_findings>>

\* An exit status that also counts the high findings.
ExitStatus_high_too(findings) ==
    IF SeverityCount(findings, "critical") + SeverityCount(findings, "high") > 0
    THEN 1 ELSE 0

\* cli.py:166-170: sys.exit(1) on a critical finding, else the command returns.
ExitStatus(findings) ==
    LET critical_count == SeverityCount(findings, "critical")
    IN  IF critical_count > 0 THEN 1 ELSE 0

Exit ==
    /\ pc = "exit"
    /\ pc' = "done"
    /\ exit_code' = Some(ExitStatus(all_findings))
    /\ UNCHANGED <<repo_path, output, complexity_threshold, skip_git, skip_ruff,
                   skip_mypy, skip_ast, fs, tool_run, all_findings, ast_findings,
                   ruff_findings, mypy_findings, git_metrics, python_files,
                   summary, recommendations, result, emitted, tree, file_findings>>

Next == RunAst \/ RunRuff \/ RunMypy \/ RunGit \/ Aggregate \/ Output \/ Exit

Spec == Init /\ [][Next]_vars

(***************************************************************************)
(* SpecAgg: the aggregation tail of analyze (cli.py:128-170) from merged   *)
(* finding lists whose counts lie on both sides of every threshold of the  *)
(* recommendation rules.  The findings are ones the analyzers produce.     *)
(***************************************************************************)
RECURSIVE Repeat(_, _)
Repeat(f, n) == IF n = 0 THEN <<>> ELSE <<f>> \o Repeat(f, n - 1)

RECURSIVE Reverse(_)
Reverse(seq) == IF seq = <<>> THEN <<>> ELSE Append(Reverse(Tail(seq)), Head(seq))

\* AST001, bug, critical
CriticalSample ==
    analyze_file(SourceFile("syntax_error", <<>>, Some(3), None),
                 << <<"b", "roken.py">> >>, 2)[1]

\* AST000, bug, high
HighSample ==
    analyze_file(SourceFile("os_error", <<>>, None, None),
                 << <<"l", "atin1.py">> >>, 2)[1]

\* AST100, complexity, medium
ComplexitySample ==
    analyze_file(SourceFile("ok", NestedIfTree, None, None),
                 << <<"p", "kg">>, <<"n", "ested.py">> >>, 2)[1]

\* mypy:attr-defined, type_error, high
TypeErrorSample ==
    _parse_mypy_output(<< MypyDiag(<< <<"c", "lean.py">> >>, "error",
                                   Some("attr-defined")) >>)[1]

\* W291, style, low, fixable
FixableSample ==
    _convert_ruff_issue(RuffIssue(<<"W", "2", "9", "1">>, JObj(EmptyDict))).value

CriticalCounts == 0..MaxOver \cup 10..(10 + MaxOver)

HighCounts == {0} \cup 5..(5 + MaxOver) \cup 10..(10 + MaxOver)

ComplexityCounts == {0} \cup 5..(5 + MaxOver)

TypeErrorCounts == {0} \cup 10..(10 + MaxOver)

FixableCounts == 0..MaxOver

Merged(nc, nh, nx, nt, nf) ==
    Repeat(CriticalSample, nc) \o Repeat(HighSample, nh)
        \o Repeat(ComplexitySample, nx) \o Repeat(TypeErrorSample, nt)
        \o Repeat(FixableSample, nf)

MetricsSamples ==
    {analyze_git_repo(run, files) :
        run \in GitRuns(<< <<"r", "epo">> >>),
        files \in {<<>>, <<SampleFiles[2]>>}}

InitAgg ==
    /\ pc = "aggregate"
    /\ repo_path = << <<"r", "epo">> >>
    /\ output = None
    /\ complexity_threshold = Some(2)
    /\ skip_git = FALSE /\ skip_ruff = FALSE /\ skip_mypy = FALSE /\ skip_ast = FALSE
    /\ fs = <<SampleFiles[1], SampleFiles[2]>>
    /\ tool_run = NoRuns
    /\ \E nc \in CriticalCounts, nh \in HighCounts, nx \in ComplexityCounts,
          nt \in TypeErrorCounts, nf \in FixableCounts, backwards \in BOOLEAN :
          all_findings = IF backwards THEN Reverse(Merged(nc, nh, nx, nt, nf))
                         ELSE Merged(nc, nh, nx, nt, nf)
    /\ ast_findings = None /\ ruff_findings = None /\ mypy_findings = None
    /\ git_metrics \in MetricsSamples
    /\ python_files = None
    /\ summary = None
    /\ recommendations = None
    /\ result = None
    /\ emitted = None
    /\ exit_code = None
    /\ ComponentIdle

NextAgg == Aggregate \/ Output \/ Exit

SpecAgg == InitAgg /\ [][NextAgg]_vars

(***************************************************************************)
(* SpecMypy: MypyAnalyzer().analyze_directory(directory) on the output the *)
(* type checker wrote line by line.                                        *)
(***************************************************************************)
MypyLevels == {"error", "warning", "note", "hint"}

MypyCodes == {None, Some("misc")} \cup {Some(code) : code \in DOMAIN MypySeverityMap}

\* The lines the type checker may write as its n-th line: a diagnostic of the
\* n-th source line, a blank line, a banner without a colon, a line with one.
MypyLines(n) ==
    {[kind |-> "diag", file |-> << <<"p", "kg">>, <<"m", "od.py">> >>, line |-> n,
      col |-> 1, level |-> level, message |-> "incompatible", code |-> code] :
        level \in MypyLevels, code \in MypyCodes}
        \cup {[kind |-> "plain", text |-> <<"", "">>],
              [kind |-> "plain", text |-> <<"S", "uccess">>],
              [kind |-> "colon", text |-> <<"n", "ote: see docs">>]}

AdapterIdle ==
    /\ repo_path = << <<"r", "epo">> >>
    /\ output = None
    /\ complexity_threshold = None
    /\ skip_git = FALSE /\ skip_ruff = FALSE /\ skip_mypy = FALSE /\ skip_ast = FALSE
    /\ fs = <<>>
    /\ all_findings = <<>>
    /\ ast_findings = None
    /\ git_metrics = None
    /\ python_files = None
    /\ summary = None
    /\ recommendations = None
    /\ result = None
    /\ emitted = None
    /\ exit_code = None
    /\ ComponentIdle

InitMypy ==
    /\ pc = "stdout"
    /\ tool_run = [NoRuns EXCEPT !.mypy = Some(ToolRun("completed", <<>>))]
    /\ mypy_findings = None /\ ruff_findings = None
    /\ AdapterIdle

MypyWritesLine ==
    /\ pc = "stdout"
    /\ Len(tool_run.mypy[1].stdout) < MaxLines
    /\ \E l \in MypyLines(Len(tool_run.mypy[1].stdout) + 1) :
          tool_run' = [tool_run EXCEPT
                          !.mypy = Some(ToolRun("completed",
                                                Append(tool_run.mypy[1].stdout, l)))]
    /\ UNCHANGED <<pc, repo_path, output, complexity_threshold, skip_git,
                   skip_ruff, skip_mypy, skip_ast, fs, all_findings, ast_findings,
                   ruff_findings, mypy_findings, git_metrics, python_files,
                   summary, recommendations, result, emitted, exit_code, tree,
                   file_findings>>

MypyAdapterRuns ==
    /\ pc = "stdout"
    /\ mypy_findings' = Some(MypyAnalyzer_analyze_directory(repo_path, tool_run.mypy[1]))
    /\ pc' = "parsed"
    /\ UNCHANGED <<repo_path, output, complexity_threshold, skip_git, skip_ruff,
                   skip_mypy, skip_ast, fs, tool_run, all_findings, ast_findings,
                   ruff_findings, git_metrics, python_files, summary,
                   recommendations, result, emitted, exit_code, tree,
                   file_findings>>

NextMypy == MypyWritesLine \/ MypyAdapterRuns

SpecMypy == InitMypy /\ [][NextMypy]_vars

(***************************************************************************)
(* SpecRuff: RuffAnalyzer().analyze_directory(directory) on a JSON array   *)
(* the linter wrote issue by issue.                                        *)
(***************************************************************************)
RuleCodes ==
    { <<"E", "5", "0", "1">>, <<"E", "9", "9", "9">>, <<"W", "2", "9", "1">>,
      <<"F", "4", "0", "1">>, <<"S", "1", "0", "1">>, <<"S", "I", "M", "1", "0", "2">>,
      <<"P", "E", "R", "F", "4", "0", "1">>, <<"C", "4", "0", "1">>,
      <<"T", "2", "0", "1">>, <<"U", "P", "0", "0", "6">>, <<"B", "0", "0", "6">>,
      <<"N", "8", "0", "1">>, <<"I", "0", "0", "1">>, <<"A", "0", "0", "1">>,
      <<"D", "1", "0", "0">>, <<>> }

\* The JSON object without one of its keys, and with a key set.
Without(dict, key) == [k \in DOMAIN dict \ {key} |-> dict[k]]

With(dict, key, value) ==
    [k \in DOMAIN dict \cup {key} |-> IF k = key THEN value ELSE dict[k]]

\* An issue as the linter writes it, and the same issue with one field
\* missing, null, empty or inconsistent.
IssueVariants ==
    LET issue == RuffIssue(<<"F", "4", "0", "1">>, JNull)
    IN  {RuffIssue(code, fix) : code \in RuleCodes, fix \in {JNull, JObj(EmptyDict)}}
            \cup {Without(issue, k) :
                    k \in {"fix", "location", "end_location", "code", "message"}}
            \cup {With(issue, k, JNull) : k \in {"location", "end_location", "code"}}
            \cup {With(issue, "message", JStr("")),
                  With(issue, "location", JObj([x \in {"column"} |-> JInt(4)])),
                  With(issue, "end_location",
                       JObj([x \in {"row", "column"} |-> JInt(2)]))}

InitRuff ==
    /\ pc = "stdout"
    /\ tool_run = [NoRuns EXCEPT
                      !.ruff = Some(ToolRun("completed",
                                            [json |-> "array", items |-> <<>>]))]
    /\ mypy_findings = None /\ ruff_findings = None
    /\ AdapterIdle

RuffWritesIssue ==
    /\ pc = "stdout"
    /\ Len(tool_run.ruff[1].stdout.items) < MaxIssues
    /\ \E issue \in IssueVariants :
          tool_run' = [tool_run EXCEPT
                          !.ruff = Some(ToolRun("completed",
                                [json |-> "array",
                                 items |-> Append(tool_run.ruff[1].stdout.items, issue)]))]
    /\ UNCHANGED <<pc, repo_path, output, complexity_threshold, skip_git,
                   skip_ruff, skip_mypy, skip_ast, fs, all_findings, ast_findings,
                   ruff_findings, mypy_findings, git_metrics, python_files,
                   summary, recommendations, result, emitted, exit_code, tree,
                   file_findings>>

RuffAdapterRuns ==
    /\ pc = "stdout"
    /\ ruff_findings' = Some(RuffAnalyzer_analyze_directory(repo_path, tool_run.ruff[1]))
    /\ pc' = "parsed"
    /\ UNCHANGED <<repo_path, output, complexity_threshold, skip_git, skip_ruff,
                   skip_mypy, skip_ast, fs, tool_run, all_findings, ast_findings,
                   mypy_findings, git_metrics, python_files, summary,
                   recommendations, result, emitted, exit_code, tree,
                   file_findings>>

NextRuff == RuffWritesIssue \/ RuffAdapterRuns

SpecRuff == InitRuff /\ [][NextRuff]_vars

(***************************************************************************)
(* SpecGit: analyze_git_repo(repo_path) on a history that grew commit by   *)
(* commit.  commits[0] is the newest commit, so a new commit goes in       *)
(* front.                                                                  *)
(***************************************************************************)
\* One file more than the hot-spot list can hold, named "1", "2", ...
WideFiles == [i \in 1..(list_limit + 1) |-> ToString(i)]

\* A commit to the last of these files, a commit to all of them, and, once
\* in a history, a commit whose stats cannot be read.
CommitVariants(commits) ==
    {Commit(<<WideFiles[Len(WideFiles)]>>), Commit(WideFiles)}
        \cup (IF \A k \in 1..Len(commits) : commits[k].stats = "ok"
              THEN {[files |-> WideFiles, stats |-> "raises"]}
              ELSE {})

\* Enough commits to pass the threshold by MaxOver, and the unreadable one.
MaxCommits == hot_spot_threshold + MaxOver + 1

InitGit ==
    /\ pc = "history"
    /\ repo_path = << <<"r", "epo">> >>
    /\ output = None
    /\ complexity_threshold = None
    /\ skip_git = FALSE /\ skip_ruff = FALSE /\ skip_mypy = FALSE /\ skip_ast = FALSE
    /\ fs = <<SampleFiles[2]>>
    /\ tool_run = [NoRuns EXCEPT !.git = Some(GitRun("ok", <<>>, repo_path))]
    /\ all_findings = <<>>
    /\ ast_findings = None /\ ruff_findings = None /\ mypy_findings = None
    /\ git_metrics = None
    /\ python_files = None
    /\ summary = None
    /\ recommendations = None
    /\ result = None
    /\ emitted = None
    /\ exit_code = None
    /\ ComponentIdle

CommitChange ==
    /\ pc = "history"
    /\ Len(tool_run.git[1].repo.commits) < MaxCommits
    /\ \E commit \in CommitVariants(tool_run.git[1].repo.commits) :
          tool_run' = [tool_run EXCEPT
                          !.git = Some(GitRun("ok",
                                              <<commit>> \o tool_run.git[1].repo.commits,
                                              repo_path))]
    /\ UNCHANGED <<pc, repo_path, output, complexity_threshold, skip_git,
                   skip_ruff, skip_mypy, skip_ast, fs, all_findings, ast_findings,
                   ruff_findings, mypy_findings, git_metrics, python_files,
                   summary, recommendations, result, emitted, exit_code, tree,
                   file_findings>>

AnalyzeHistory ==
    /\ pc = "history"
    /\ git_metrics' = analyze_git_repo(tool_run.git[1], fs)
    /\ pc' = "analyzed"
    /\ UNCHANGED <<repo_path, output, complexity_threshold, skip_git, skip_ruff,
                   skip_mypy, skip_ast, fs, tool_run, all_findings, ast_findings,
                   ruff_findings, mypy_findings, python_files, summary,
                   recommendations, result, emitted, exit_code, tree,
                   file_findings>>

NextGit == CommitChange \/ AnalyzeHistory

SpecGit == InitGit /\ [][NextGit]_vars

(***************************************************************************)
(* Properties of the analyze command (Spec) and of its aggregation tail    *)
(* (SpecAgg)                                                               *)
(***************************************************************************)
Count(seq, Test(_)) == Cardinality({i \in 1..Len(seq) : Test(seq[i])})

HasCritical(findings) == \E i \in 1..Len(findings) : findings[i].severity = "critical"

\* C1: in the document the analyze command emits, summary.total_recommendations
\* is the number of entries of the recommendations list.
CE_C1 ==
    emitted # None =>
        emitted[1].json.summary.total_recommendations
            = Len(emitted[1].json.recommendations)

Scanned == SelectSeq(fs, LAMBDA f : ~Skipped(repo_path \o f.rel))

RuffStepFailed ==
    /\ tool_run.ruff # None
    /\ \/ tool_run.ruff[1].outcome # "completed"
       \/ tool_run.ruff[1].stdout.json = "invalid"
       \/ /\ tool_run.ruff[1].stdout.json = "array"
          /\ \E i \in 1..Len(tool_run.ruff[1].stdout.items) :
                ConvertRaises(tool_run.ruff[1].stdout.items[i])

MypyStepFailed == tool_run.mypy # None /\ tool_run.mypy[1].outcome # "completed"

GitStepFailed ==
    tool_run.git # None /\ tool_run.git[1].outcome \in {"no_gitpython", "error"}

FailedFiles ==
    IF tool_run.ast THEN Count(Scanned, LAMBDA f : f.source.outcome # "ok") ELSE 0

Bit(b) == IF b THEN 1 ELSE 0

\* The findings that report a failed step.
FailureRules ==
    {<<"AST000">>, <<"AST001">>, <<"RUFF000">>, <<"RUFF001">>, <<"RUFF002">>,
     <<"RUFF003">>, <<"MYPY000">>, <<"MYPY001">>, <<"MYPY002">>}

IsFailureFinding(f) == f.rule_id[1] \in FailureRules

RECURSIVE GoodFileFindings(_)
GoodFileFindings(files) ==
    IF files = <<>> THEN <<>>
    ELSE (IF Head(files).source.outcome = "ok"
          THEN _analyze_tree(Head(files).source.tree, repo_path \o Head(files).rel,
                             complexity_threshold[1])
          ELSE <<>>)
         \o GoodFileFindings(Tail(files))

\* What the steps that did not fail found, in the order of the steps.
GoodFindings ==
    (IF tool_run.ast THEN GoodFileFindings(Scanned) ELSE <<>>)
        \o (IF tool_run.ruff # None /\ ~RuffStepFailed
               /\ tool_run.ruff[1].stdout.json = "array"
            THEN [i \in 1..Len(tool_run.ruff[1].stdout.items) |->
                     _convert_ruff_issue(tool_run.ruff[1].stdout.items[i]).value]
            ELSE <<>>)
        \o (IF tool_run.mypy # None /\ ~MypyStepFailed
            THEN _parse_mypy_output(tool_run.mypy[1].stdout)
            ELSE <<>>)

ReportFindings == emitted[1].json.findings

\* From every state before the end the command can take its next step.
AlwaysProceeds == pc # "done" => ENABLED Next

Thm_C4 ==
    /\ (tool_run.ruff # None /\ tool_run.ruff[1].outcome # "completed") =>
          /\ ruff_findings # None
          /\ Len(ruff_findings[1]) = 1
          /\ ruff_findings[1][1].type = "bug"
          /\ ruff_findings[1][1].severity
                = IF tool_run.ruff[1].outcome = "not_found" THEN "critical" ELSE "high"
    /\ (tool_run.mypy # None /\ tool_run.mypy[1].outcome # "completed") =>
          /\ mypy_findings # None
          /\ Len(mypy_findings[1]) = 1
          /\ mypy_findings[1][1].type = "bug"
          /\ mypy_findings[1][1].severity
                = IF tool_run.mypy[1].outcome = "not_found" THEN "medium" ELSE "high"
    /\ (pc \notin {"ast", "ruff"} /\ ~skip_ruff) => ruff_findings # None
    /\ (pc \notin {"ast", "ruff", "mypy"} /\ ~skip_mypy) => mypy_findings # None

\* Both executables missing in one run.
Wit_C4 ==
    /\ tool_run.ruff # None /\ tool_run.ruff[1].outcome = "not_found"
    /\ tool_run.mypy # None /\ tool_run.mypy[1].outcome = "not_found"
    /\ ruff_findings[1][1].severity = "critical"
    /\ mypy_findings[1][1].severity = "medium"

RECURSIVE SumValues(_, _)
SumValues(counter, keys) ==
    IF keys = {} THEN 0
    ELSE LET k == CHOOSE x \in keys : TRUE
         IN  counter[k] + SumValues(counter, keys \ {k})

\* C5: for a list of N findings the summary has total_findings = N, the
\* severity counts sum to N, the type counts sum to N, and no key of either
\* mapping has the count 0.
Thm_C5 ==
    summary # None =>
        LET by_severity == summary[1].findings_by_severity
            by_type == summary[1].findings_by_type
        IN  /\ summary[1].total_findings = Len(all_findings)
            /\ SumValues(by_severity, DOMAIN by_severity) = Len(all_findings)
            /\ SumValues(by_type, DOMAIN by_type) = Len(all_findings)
            /\ \A k \in DOMAIN by_severity : by_severity[k] > 0
            /\ \A k \in DOMAIN by_type : by_type[k] > 0
            /\ DOMAIN by_severity \subseteq Severity
            /\ DOMAIN by_type \subseteq FindingType

\* A summary of more than twenty findings of several severities and types,
\* some absent.
Wit_C5 ==
    /\ summary # None
    /\ summary[1].total_findings > 20
    /\ Cardinality(DOMAIN summary[1].findings_by_severity) \in 2..4
    /\ Cardinality(DOMAIN summary[1].findings_by_type) \in 2..4

\* C6: total_files is the number of distinct location.file values when there
\* are findings and the supplied source-file count when there are none;
\* python_files is the supplied source-file count.
Thm_C6 ==
    summary # None =>
        /\ all_findings # <<>> =>
              summary[1].total_files
                  = Cardinality({all_findings[i].location.file :
                                    i \in 1..Len(all_findings)})
        /\ all_findings = <<>> => summary[1].total_files = python_files[1]
        /\ summary[1].python_files = python_files[1]

\* Findings that share files: fewer files than findings, and a file count
\* that differs from the source-file count.
Wit_C6 ==
    /\ summary # None
    /\ Len(all_findings) > summary[1].total_files
    /\ summary[1].total_files > 1
    /\ summary[1].total_files # python_files[1]

\* The rules of section 4.4, each with its own count or list.
RuleHolds(findings, metrics) ==
    << Count(findings, LAMBDA f : f.severity = "critical") > 0,
       Count(findings, LAMBDA f : f.severity = "high") > 5,
       Count(findings, LAMBDA f : f.type = "complexity") > 5,
       Count(findings, LAMBDA f : f.type = "type_error") > 10,
       metrics # None /\ Len(metrics[1].hot_spots) > 0,
       metrics # None /\ Len(metrics[1].large_files) > 0,
       Count(findings, LAMBDA f : f.fix_available) > 0 >>

RulePriority == <<"urgent", "high", "medium", "high", "medium", "low", "low">>

RuleCategory == <<"Critical Issues", "High Severity Issues", "Code Complexity",
                  "Type Safety", "Code Hot Spots", "Large Files", "Quick Wins">>

\* The rules that hold, in rule order.
RulesHeld(findings, metrics) ==
    SelectSeq(<<1, 2, 3, 4, 5, 6, 7>>, LAMBDA r : RuleHolds(findings, metrics)[r])

\* C7: the recommendations are exactly those of the rules whose condition
\* holds, one each, in rule order, with the rule's priority.
Thm_C7 ==
    recommendations # None =>
        LET held == RulesHeld(all_findings, git_metrics)
        IN  /\ Len(recommendations[1]) = Len(held)
            /\ \A k \in 1..Len(held) :
                  /\ recommendations[1][k].priority = RulePriority[held[k]]
                  /\ recommendations[1][k].category = RuleCategory[held[k]]

\* All seven rules fire at once.
Wit_C7 ==
    /\ recommendations # None
    /\ Len(recommendations[1]) = 7

\* A critical finding of every type, fixable or not.
CriticalFindings ==
    {Finding(type, "critical",
             Location(<< <<"b", "roken.py">> >>, Some(1), Some(0), None, None),
             <<"critical">>, Some(<<"X">>), fix) :
        type \in FindingType, fix \in BOOLEAN}

NotUrgent(recs) == SelectSeq(recs, LAMBDA r : r.priority # "urgent")

\* The recommendations for L extended with f are those for L plus one
\* urgent recommendation.
AddsOneUrgent(f) ==
    LET after == _generate_recommendations(Append(all_findings, f), git_metrics)
    IN  /\ Len(after) = Len(recommendations[1]) + 1
        /\ Count(after, LAMBDA r : r.priority = "urgent") = 1
        /\ NotUrgent(after) = recommendations[1]

\* C8 as stated: for a list without a critical finding and any critical
\* finding f, the recommendations for the list extended with f are those for
\* the list plus exactly one urgent recommendation.
CE_C8 ==
    (recommendations # None /\ ~HasCritical(all_findings)) =>
        \A f \in CriticalFindings : AddsOneUrgent(f)

\* C8 amended: the same for every critical finding f that is not of type
\* complexity or type_error and is not fixable, that is, one that raises no
\* count but the critical count.
Thm_C8 ==
    (recommendations # None /\ ~HasCritical(all_findings)) =>
        \A f \in CriticalFindings :
            (f.type \notin {"complexity", "type_error"} /\ ~f.fix_available)
                => AddsOneUrgent(f)

\* A list without critical findings for which five other rules fire.
Wit_C8 ==
    /\ recommendations # None
    /\ ~HasCritical(all_findings)
    /\ Len(recommendations[1]) >= 5
    /\ \E f \in CriticalFindings :
          f.type = "bug" /\ ~f.fix_available /\ AddsOneUrgent(f)

(***************************************************************************)
(* Properties of the structural analyzer (SpecAst)                         *)
(***************************************************************************)
Operands(t, j) == t[j].names + Cardinality({c \in 1..Len(t) : t[c].parent = j})

RECURSIVE ChainSum(_, _)
ChainSum(t, S) ==
    IF S = {} THEN 0
    ELSE LET j == CHOOSE x \in S : TRUE
         IN  (Operands(t, j) - 1) + ChainSum(t, S \ {j})

KindCount(t, S, kinds) == Cardinality({j \in S : t[j].kind \in kinds})

\* The count the specification gives, taken over the set of nodes at or below i.
ExpectedComplexity(t, i) ==
    LET D == Descendants(t, i)
    IN  1 + KindCount(t, D, {"If"}) + KindCount(t, D, {"For", "While"})
          + KindCount(t, D, {"ExceptHandler"}) + KindCount(t, D, {"With"})
          + ChainSum(t, {j \in D : t[j].kind = "BoolOp"})

Counted == {"If", "For", "While", "ExceptHandler", "With", "BoolOp"}

FunctionDefs(t) == {i \in 1..Len(t) : t[i].kind = "FunctionDef"}

\* The AST100 findings analyze_file returned for the function at node i.
ComplexityFindingsFor(t, i) ==
    SelectSeq(file_findings[1],
              LAMBDA f : /\ f.rule_id = Some(<<"AST100">>)
                         /\ f.location.line = Some(t[i].lineno)
                         /\ f.location.function = Some(t[i].name))

\* C9: the complexity the visitor computes for a function is 1 + ifs + for and
\* while loops + except clauses + with blocks + the sum over boolean chains of
\* (operands - 1), over the function's whole subtree, nested constructs
\* included; the complexity an AST100 finding reports is that number.
Thm_C9 ==
    tree.outcome = "ok" =>
        \A i \in FunctionDefs(tree.tree) :
            /\ Complexity(tree.tree, i) = ExpectedComplexity(tree.tree, i)
            /\ pc = "analyzed" =>
                 \A k \in 1..Len(ComplexityFindingsFor(tree.tree, i)) :
                     ComplexityFindingsFor(tree.tree, i)[k].message[3]
                         = ExpectedComplexity(tree.tree, i)

\* A function holding a counted construct inside another counted construct,
\* analyzed and reported.
Wit_C9 ==
    /\ pc = "analyzed"
    /\ tree.outcome = "ok"
    /\ \E i \in FunctionDefs(tree.tree) :
          /\ \E j, k \in Descendants(tree.tree, i) :
                /\ tree.tree[k].parent = j
                /\ tree.tree[j].kind \in Counted
                /\ tree.tree[k].kind \in Counted
          /\ Complexity(tree.tree, i) >= 3
          /\ ComplexityFindingsFor(tree.tree, i) # <<>>

FindingsFor(rule, t, i) ==
    SelectSeq(file_findings[1],
              LAMBDA f : /\ f.rule_id = Some(<<rule>>)
                         /\ f.location.line = Some(t[i].lineno))

\* The parameters of the function at node i that a call can pass by position:
\* the positional-only ones and the positional-or-keyword ones.
PositionalParameters(t, i) == t[i].posonlyargs + t[i].nargs

\* C11: for every function definition analyze_file returns exactly one AST101
\* finding (code_smell, medium, the count in its message) when the function
\* has more than 7 parameters that can be passed positionally, and none when
\* it has 7 or fewer.
CE_C11 ==
    (pc = "analyzed" /\ tree.outcome = "ok") =>
        \A i \in FunctionDefs(tree.tree) :
            LET found == FindingsFor("AST101", tree.tree, i)
                count == PositionalParameters(tree.tree, i)
            IN  /\ Len(found) = (IF count > 7 THEN 1 ELSE 0)
                /\ \A k \in 1..Len(found) :
                      /\ found[k].type = "code_smell"
                      /\ found[k].severity = "medium"
                      /\ found[k].message[3] = count

\* C12: analyze_file returns, for a source with a syntax error, exactly one
\* finding (bug, critical, AST001, the parser's line and column or 0), and for
\* any other exception while reading, parsing or analyzing the tree exactly
\* one finding (bug, high, AST000, a location with the file only); nothing
\* found before the failure is returned.
Thm_C12 ==
    pc = "analyzed" =>
        /\ file_findings # None
        /\ tree.outcome = "syntax_error" =>
              /\ Len(file_findings[1]) = 1
              /\ file_findings[1][1].type = "bug"
              /\ file_findings[1][1].severity = "critical"
              /\ file_findings[1][1].rule_id = Some(<<"AST001">>)
              /\ file_findings[1][1].location
                    = Location(SamplePath,
                               Some(IF tree.lineno = None THEN 0 ELSE tree.lineno[1]),
                               Some(IF tree.offset = None THEN 0 ELSE tree.offset[1]),
                               None, None)
        /\ tree.outcome \in {"os_error", "tree_error"} =>
              /\ Len(file_findings[1]) = 1
              /\ file_findings[1][1].type = "bug"
              /\ file_findings[1][1].severity = "high"
              /\ file_findings[1][1].rule_id = Some(<<"AST000">>)
              /\ file_findings[1][1].location
                    = Location(SamplePath, None, None, None, None)

\* The tree analysis raised after a function above the threshold, and the
\* one finding returned is the failure.
Wit_C12 ==
    /\ pc = "analyzed"
    /\ tree.outcome = "tree_error"
    /\ \E i \in FunctionDefs(tree.tree) :
          Complexity(tree.tree, i) > complexity_threshold[1]
    /\ Len(file_findings[1]) = 1

(***************************************************************************)
(* Properties of the directory scan (Spec)                                 *)
(***************************************************************************)
\* What the analysis of the k-th file of the tree returns when it is analyzed.
FindingsOfFile(k) ==
    analyze_file(fs[k].source, repo_path \o fs[k].rel, complexity_threshold[1])

\* C13: analyze_directory analyzes a file found under the root exactly when
\* no component of its path below the root starts with '.' or is an excluded
\* name, whatever the components of the root's own path: the findings of such
\* a file are returned, and nothing is returned for any other file.
CE_C13 ==
    ast_findings # None =>
        \A k \in 1..Len(fs) :
            IF Skipped(fs[k].rel)
            THEN \A n \in 1..Len(ast_findings[1]) :
                    ast_findings[1][n].location.file # repo_path \o fs[k].rel
            ELSE \A n \in 1..Len(FindingsOfFile(k)) :
                    \E j \in 1..Len(ast_findings[1]) :
                        ast_findings[1][j] = FindingsOfFile(k)[n]

(***************************************************************************)
(* Properties of the type-checker adapter (SpecMypy)                       *)
(***************************************************************************)
\* The lines of the output that have the form of a diagnostic.
DiagLines == SelectSeq(tool_run.mypy[1].stdout, LAMBDA l : l.kind = "diag")

\* The severity section 4.2 gives a diagnostic line.
LineSeverity(l) ==
    CASE l.level = "warning" -> "low"
      [] l.level = "note" -> "info"
      [] l.level = "error" ->
            (CASE l.code = Some("syntax") -> "critical"
               [] l.code \in {Some("attr-defined"), Some("name-defined"),
                              Some("call-arg")} -> "high"
               [] l.code \in {Some("no-untyped-def"), Some("no-any-return")} -> "low"
               [] l.code = Some("unused-ignore") -> "info"
               [] OTHER -> "medium")
      [] OTHER -> "medium"

\* C14: every finding built from a matched line has type type_error and
\* fix_available false; its severity is the code table's entry, or medium
\* without a code or with an unknown one, for level error, low for warning,
\* info for note and medium for any other level; its rule_id is mypy:<code>
\* with a code and mypy without.
Thm_C14 ==
    pc = "parsed" =>
        /\ Len(mypy_findings[1]) = Len(DiagLines)
        /\ \A n \in 1..Len(DiagLines) :
              /\ mypy_findings[1][n].type = "type_error"
              /\ mypy_findings[1][n].fix_available = FALSE
              /\ mypy_findings[1][n].severity = LineSeverity(DiagLines[n])
              /\ mypy_findings[1][n].rule_id
                    = IF DiagLines[n].code = None THEN Some(<<"mypy">>)
                      ELSE Some(<<"mypy:", DiagLines[n].code[1]>>)

\* An error without a code next to a hint with one.
Wit_C14 ==
    /\ pc = "parsed"
    /\ Len(mypy_findings[1]) = 2
    /\ DiagLines[1].level = "error" /\ DiagLines[1].code = None
    /\ mypy_findings[1][1].rule_id = Some(<<"mypy">>)
    /\ DiagLines[2].level = "hint" /\ DiagLines[2].code = Some("syntax")
    /\ mypy_findings[1][2].severity = "medium"

\* C15: _parse_mypy_output returns one finding per line of the diagnostic
\* form, in line order, each with the file, line, column and message of its
\* own line, whatever other lines stand between them.
CE_C15 ==
    pc = "parsed" =>
        /\ Len(mypy_findings[1]) = Len(DiagLines)
        /\ \A n \in 1..Len(DiagLines) :
              /\ mypy_findings[1][n].location.file = DiagLines[n].file
              /\ mypy_findings[1][n].location.line = Some(DiagLines[n].line)
              /\ mypy_findings[1][n].location.column = Some(DiagLines[n].col)
              /\ mypy_findings[1][n].message = <<DiagLines[n].message>>

(***************************************************************************)
(* Properties of the linter adapter (SpecRuff)                             *)
(***************************************************************************)
Issues == tool_run.ruff[1].stdout.items

\* The rule code of a finding, as characters.
CodeOf(f) == f.rule_id[1]

SameKind(f, g) == f.severity = g.severity /\ f.type = g.type

\* The table of section 4.3, by alphabetic prefix.
PrefixSeverity(prefix) ==
    CASE prefix \in {<<"F">>, <<"S">>} -> "high"
      [] prefix \in {<<"W">>, <<"I">>, <<"N">>} -> "low"
      [] OTHER -> "medium"

\* The type by the first matching test on the leading characters of the code.
LeadingType(code) ==
    CASE code # <<>> /\ code[1] = "S" -> "security"
      [] code # <<>> /\ code[1] = "F" -> "bug"
      [] Len(code) >= 2 /\ code[1] = "E" /\ code[2] = "9" -> "bug"
      [] code # <<>> /\ code[1] \in {"E", "W", "I", "N"} -> "style"
      [] Len(code) >= 4 /\ SubSeq(code, 1, 4) = <<"P", "E", "R", "F">> -> "performance"
      [] OTHER -> "code_smell"

\* The issues of the array all convert, so the findings are theirs.
AllConverted ==
    /\ pc = "parsed"
    /\ \A n \in 1..Len(Issues) : ~ConvertRaises(Issues[n])

\* C16 as stated: two findings whose rule codes have the same alphabetic
\* prefix have the same severity and the same type.
CE_C16 ==
    AllConverted =>
        \A m, n \in 1..Len(ruff_findings[1]) :
            AlphaPrefix(CodeOf(ruff_findings[1][m])) = AlphaPrefix(CodeOf(ruff_findings[1][n]))
                => SameKind(ruff_findings[1][m], ruff_findings[1][n])

\* C16 amended: the severity is a function of the alphabetic prefix, medium
\* when the prefix is not in the table; the type is chosen first-match on the
\* leading characters of the whole code: S security, F or E9 bug, E, W, I or
\* N style, PERF performance, otherwise code_smell.  Two codes with the same
\* alphabetic prefix get the same type unless exactly one of them starts
\* with E9.
Thm_C16 ==
    AllConverted =>
        /\ \A n \in 1..Len(ruff_findings[1]) :
              /\ ruff_findings[1][n].severity
                    = PrefixSeverity(AlphaPrefix(CodeOf(ruff_findings[1][n])))
              /\ ruff_findings[1][n].type = LeadingType(CodeOf(ruff_findings[1][n]))
        /\ \A m, n \in 1..Len(ruff_findings[1]) :
              (/\ AlphaPrefix(CodeOf(ruff_findings[1][m]))
                     = AlphaPrefix(CodeOf(ruff_findings[1][n]))
               /\ StartsWith(CodeOf(ruff_findings[1][m]), <<"E", "9">>)
                     = StartsWith(CodeOf(ruff_findings[1][n]), <<"E", "9">>))
                => SameKind(ruff_findings[1][m], ruff_findings[1][n])

\* Two codes of the prefix E, one of them an E9 code, with different types.
Wit_C16 ==
    /\ AllConverted
    /\ Len(ruff_findings[1]) = 2
    /\ CodeOf(ruff_findings[1][1]) = <<"E", "5", "0", "1">>
    /\ CodeOf(ruff_findings[1][2]) = <<"E", "9", "9", "9">>
    /\ ruff_findings[1][1].type = "style"
    /\ ruff_findings[1][2].type = "bug"
    /\ ruff_findings[1][1].severity = ruff_findings[1][2].severity

\* C17: for a JSON array of k issue objects the adapter returns k findings,
\* one per element in order, fix_available being true exactly for the
\* elements with a non-null fix, also when code, location, end_location or
\* fix of an element is null or missing.
CE_C17 ==
    pc = "parsed" =>
        /\ Len(ruff_findings[1]) = Len(Issues)
        /\ \A n \in 1..Len(Issues) :
              ruff_findings[1][n].fix_available
                  = ("fix" \in DOMAIN Issues[n] /\ Issues[n]["fix"] # JNull)

(***************************************************************************)
(* Properties of a run whose linter output is malformed (Spec)             *)
(***************************************************************************)
MalformedLinterOutput ==
    /\ tool_run.ruff # None
    /\ tool_run.ruff[1].outcome = "completed"
    /\ tool_run.ruff[1].stdout.json = "invalid"

\* What the structural step and the type-checker step return in this run.
StructuralPart ==
    IF tool_run.ast THEN analyze_directory(repo_path, fs, complexity_threshold[1])
    ELSE <<>>

TypeCheckerPart ==
    IF tool_run.mypy # None
    THEN MypyAnalyzer_analyze_directory(repo_path, tool_run.mypy[1])
    ELSE <<>>

\* C18: when the linter's output is not valid JSON the adapter returns exactly
\* one finding of type bug and severity medium, and the run goes on: the
\* other analyzers' findings, the summary, the recommendations and the
\* report are what they are without the linter's output, with that one
\* finding added.
Thm_C18 ==
    MalformedLinterOutput =>
        /\ ruff_findings # None
        /\ Len(ruff_findings[1]) = 1
        /\ ruff_findings[1][1].type = "bug"
        /\ ruff_findings[1][1].severity = "medium"
        /\ pc # "done" => ENABLED Next
        /\ pc = "done" =>
              /\ emitted # None
              /\ emitted[1].json.findings
                    = StructuralPart \o ruff_findings[1] \o TypeCheckerPart
              /\ emitted[1].json.summary
                    = _generate_summary(emitted[1].json.findings, python_files[1])
              /\ emitted[1].json.recommendations
                    = _generate_recommendations(emitted[1].json.findings, git_metrics)
              /\ emitted[1].json.git_metrics = git_metrics
              /\ exit_code = Some(ExitStatus(StructuralPart \o TypeCheckerPart))

\* A finished run with malformed linter output between findings of the
\* structural step and of the type checker.
Wit_C18 ==
    /\ MalformedLinterOutput
    /\ pc = "done"
    /\ StructuralPart # <<>>
    /\ TypeCheckerPart # <<>>
    /\ Len(emitted[1].json.findings) = Len(StructuralPart) + 1 + Len(TypeCheckerPart)
    /\ git_metrics # None

(***************************************************************************)
(* The data-model invariants of section 3 on the findings the analyzers    *)
(* and adapters return                                                     *)
(***************************************************************************)
\* A message is the sequence of its template and the values put into it.
NonEmptyMessage(f) == f.message # <<>> /\ f.message[1] # ""

EndNotBeforeLine(f) ==
    (f.location.line # None /\ f.location.end_line # None)
        => f.location.end_line[1] >= f.location.line[1]

AllWellFormed(findings) ==
    \A n \in 1..Len(findings) :
        NonEmptyMessage(findings[n]) /\ EndNotBeforeLine(findings[n])

\* C19: every finding an analyzer or adapter returns, and so every finding of
\* the report, has a non-empty message and, when its location has both line
\* and end_line, end_line >= line, whatever the tool wrote.
CE_C19 ==
    /\ file_findings # None => AllWellFormed(file_findings[1])
    /\ ast_findings # None => AllWellFormed(ast_findings[1])
    /\ ruff_findings # None => AllWellFormed(ruff_findings[1])
    /\ mypy_findings # None => AllWellFormed(mypy_findings[1])
    /\ AllWellFormed(all_findings)
    /\ emitted # None => AllWellFormed(emitted[1].json.findings)

(***************************************************************************)
(* Arrival order of the analyzers' result lists (Spec)                     *)
(***************************************************************************)
OrEmpty(optional) == IF optional = None THEN <<>> ELSE optional[1]

\* The three result lists, and the orders in which they can arrive.
ResultLists == <<OrEmpty(ast_findings), OrEmpty(ruff_findings), OrEmpty(mypy_findings)>>

ArrivalOrders ==
    {order \in [1..3 -> 1..3] : \A a, b \in 1..3 : order[a] = order[b] => a = b}

Joined(order) ==
    ResultLists[order[1]] \o ResultLists[order[2]] \o ResultLists[order[3]]

\* C20: when the summary and the recommendations have been made, the result
\* lists of the structural analyzer, the linter adapter and the type-checker
\* adapter joined in any arrival order give that same summary and that same
\* recommendation list; only the order of the finding list can differ.
Thm_C20 ==
    pc = "output" =>
        /\ all_findings = Joined([n \in 1..3 |-> n])
        /\ \A order \in ArrivalOrders :
              /\ _generate_summary(Joined(order), python_files[1]) = summary[1]
              /\ _generate_recommendations(Joined(order), git_metrics)
                    = recommendations[1]
              /\ Len(Joined(order)) = Len(all_findings)
              /\ \A n \in 1..Len(all_findings) :
                    \E m \in 1..Len(all_findings) : Joined(order)[m] = all_findings[n]

\* Three non-empty result lists, one of them on the files of another, whose
\* join in another order is a different list, with recommendations made.
Wit_C20 ==
    /\ pc = "output"
    /\ \A k \in 1..3 : ResultLists[k] # <<>>
    /\ \E order \in ArrivalOrders : Joined(order) # all_findings
    /\ ResultLists[2][1].location.file = ResultLists[3][1].location.file
    /\ ResultLists[1][1].location.file # ResultLists[2][1].location.file
    /\ recommendations[1] # <<>>

(***************************************************************************)
(* Properties of the history analyzer (SpecGit)                            *)
(***************************************************************************)
History == tool_run.git[1].repo.commits

\* The number of inspected commits that changed the file.
ChangeCount(file) ==
    Cardinality({k \in 1..Len(History) :
                    /\ History[k].stats = "ok"
                    /\ \E j \in 1..Len(History[k].files) : History[k].files[j] = file})

HotSpotsListed == git_metrics[1].hot_spots

\* At most 20 files, by decreasing change count.
ShortAndOrdered ==
    /\ Len(HotSpotsListed) <= 20
    /\ \A n \in 1..(Len(HotSpotsListed) - 1) :
          ChangeCount(HotSpotsListed[n]) >= ChangeCount(HotSpotsListed[n + 1])

\* C21 as stated: a file is in hot_spots only if its change count over the
\* inspected commits is strictly greater than the hot-spot threshold; the
\* list holds at most 20 files by decreasing change count.
CE_C21 ==
    (pc = "analyzed" /\ git_metrics # None) =>
        /\ \A n \in 1..Len(HotSpotsListed) :
              ChangeCount(HotSpotsListed[n]) > hot_spot_threshold
        /\ ShortAndOrdered

\* C21 amended: a file is in hot_spots only if its change count over the
\* inspected commits is at least the hot-spot threshold; the list holds at
\* most 20 files by decreasing change count.
Thm_C21 ==
    (pc = "analyzed" /\ git_metrics # None) =>
        /\ \A n \in 1..Len(HotSpotsListed) :
              ChangeCount(HotSpotsListed[n]) >= hot_spot_threshold
        /\ ShortAndOrdered

\* Twenty-one files at or above the threshold: the list is full, led by the
\* file changed most, which was counted last, and followed by files changed
\* exactly as often as the threshold.
Wit_C21 ==
    /\ pc = "analyzed"
    /\ git_metrics # None
    /\ Len(HotSpotsListed) = 20
    /\ HotSpotsListed[1] = WideFiles[Len(WideFiles)]
    /\ ChangeCount(HotSpotsListed[1]) > hot_spot_threshold
    /\ ChangeCount(HotSpotsListed[2]) = hot_spot_threshold
    /\ \E k \in 1..Len(History) : History[k].stats = "raises"

(***************************************************************************)
(* Missing executables, exit status and urgency (Spec)                     *)
(***************************************************************************)
UrgentInReport ==
    \E i \in 1..Len(emitted[1].json.recommendations) :
        emitted[1].json.recommendations[i].priority = "urgent"

\* The step did not run or returned no finding.
Quiet(findings) == findings \in {None, Some(<<>>)}

LinterMissing ==
    tool_run.ruff # None /\ tool_run.ruff[1].outcome = "not_found"

OnlyCheckerMissing ==
    /\ tool_run.mypy # None /\ tool_run.mypy[1].outcome = "not_found"
    /\ Quiet(ast_findings)
    /\ Quiet(ruff_findings)

\* C22: a run in which the linter executable is missing ends with a non-zero
\* exit code and an urgent recommendation in the report; a run on a tree
\* without findings of its own in which only the type-checker executable is
\* missing ends with exit code 0 and no urgent recommendation; in every run
\* the exit code is non-zero exactly when the report holds an urgent
\* recommendation.
Thm_C22 ==
    pc = "done" =>
        /\ exit_code # None
        /\ emitted # None
        /\ exit_code[1] # 0 <=> UrgentInReport
        /\ LinterMissing => (exit_code[1] # 0 /\ UrgentInReport)
        /\ OnlyCheckerMissing => (exit_code = Some(0) /\ ~UrgentInReport)

\* The linter is missing, the tree and the type checker yield nothing: the
\* one finding of the report is the linter's, and the run fails.
Wit_C22 ==
    /\ pc = "done"
    /\ LinterMissing
    /\ ast_findings = Some(<<>>)
    /\ mypy_findings = Some(<<>>)
    /\ Len(emitted[1].json.findings) = 1
    /\ exit_code = Some(1)
    /\ UrgentInReport

\* The type checker alone is missing on a tree without findings.
CheckerMissingRun ==
    /\ pc = "done"
    /\ OnlyCheckerMissing
    /\ ast_findings = Some(<<>>)
    /\ ruff_findings = Some(<<>>)
    /\ exit_code = Some(0)
    /\ ~UrgentInReport

(***************************************************************************)
(* Use of the linter's severity table (SpecRuff)                           *)
(***************************************************************************)
\* The rule code is the key followed by something that is not a letter.
OfFamily(rule_code, key) ==
    /\ StartsWith(rule_code, key)
    /\ Len(rule_code) > Len(key)
    /\ rule_code[Len(key) + 1] \notin Letters

\* C23: every entry of the linter adapter's severity table is reachable: for
\* a rule code made of a key of the table followed by digits, such as C401
\* for the key C4, _get_severity_for_rule looks up that key and the finding
\* gets that entry's severity.
CE_C23 ==
    AllConverted =>
        \A n \in 1..Len(ruff_findings[1]) : \A key \in DOMAIN RuffSeverityMap :
            OfFamily(CodeOf(ruff_findings[1][n]), key) =>
                /\ AlphaPrefix(CodeOf(ruff_findings[1][n])) = key
                /\ ruff_findings[1][n].severity = RuffSeverityMap[key]

====
